---- MODULE Spec2Model ----
(***************************************************************************)
(* PicoDash: the workspace manager of lib/microdashboard.py driven by the  *)
(* main loop of main.py.  Times are milliseconds of time.ticks_ms().       *)
(* Python indices are 0-based; the TLA+ sequence `workspaces` is 1-based,  *)
(* so workspace i of the code is workspaces[i + 1].                        *)
(***************************************************************************)
EXTENDS Integers, Sequences, FiniteSets, TLC

VARIABLES
    phase,                \* "boot": manager constructed, nothing loaded; "run": main loop; "crashed"
    now,                  \* the value time.ticks_ms() returns at the next clock read
    workspaces,           \* WorkspaceManager.workspaces
    current_index,        \* WorkspaceManager.current_index
    last_change_time,     \* WorkspaceManager.last_change_time
    is_transitioning,     \* WorkspaceManager.is_transitioning
    transition_start,     \* WorkspaceManager.transition_start
    transition_progress,  \* WorkspaceManager.transition_progress, as the numerator of x / SCROLL_ANIMATION_MS
    next_index,           \* WorkspaceManager.next_index (unset until the first _start_transition)
    event,                \* the operation the last step performed
    ops,                  \* the workspace calls (update/render/render_with_offset) of the last step
    presses,              \* number of button presses handled so far
    episodes,             \* current_index as it stood at the end of each finished Sliding episode
    last_config,          \* the argument of the last load_from_config call
    failed,               \* the call of the last step that raised: "" if none did
    error_led,            \* show_error_led has run: the LED is left red
    streak,               \* consecutive failed paints since the last good one or slide start
    file,                 \* the configuration file MicroYAML.load_file is called on
    pc,                   \* load_file: "call" before it opens the file, "parse", "done"; "idle": no call
    pos,                  \* MicroYAML.parse: number of lines consumed
    ps,                   \* MicroYAML.parse: the locals of the line loop
    ret,                  \* what load_file returned
    renderers,            \* per renderer class, the content field of one instance
    localtime,            \* the value time.localtime() returns at the next read
    updates,              \* per renderer, the update() calls made at this clock reading
    rcall                 \* the last call on a renderer and the display calls it issued

vars == << phase, now, workspaces, current_index, last_change_time, is_transitioning,
           transition_start, transition_progress, next_index, event, ops, presses, episodes,
           last_config, failed, error_led, streak, file, pc, pos, ps, ret,
           renderers, localtime, updates, rcall >>

\* the variables of a renderer taken on its own
rend == << renderers, localtime, updates, rcall >>

\* what the failure handling of the loop leaves behind
health == << failed, error_led, streak >>

\* the variables of a MicroYAML.load_file call
parser == << file, pc, pos, ps, ret >>

mgr == << workspaces, current_index, last_change_time, is_transitioning,
          transition_start, transition_progress, next_index >>

----------------------------------------------------------------------------
(* Program constants *)

SCROLL_ANIMATION_MS == 500

LOOP_SLEEP_MS == 100

DEBOUNCE_MS == 200

INFO_SLEEP_MS == 3000

SPLASH_MS == 1000

WIFI_RETRY_MS == 500

\* show_error_led: five flashes of 0.2 s on and 0.2 s off
ERROR_LED_MS == 2000

DEFAULT_DISPLAY_TIME == 10

DISPLAY_WIDTH == 240

(* Bounds of the model *)

MaxTime == 4000

MaxPresses == 1

MaxLines == 3

MaxStreak == 3

MaxUpdates == 2

\* Time the set-up code takes on top of the splash sleep (WiFi connection, file reads).
BootExtra == {0, 50}

\* next_index before the first _start_transition: the attribute does not exist yet.
NoIndex == -1

----------------------------------------------------------------------------
(* Configuration values: the tree MicroYAML.load_file hands to main *)

List(s) == [t |-> "list", v |-> s]

Map(f) == [t |-> "map", v |-> f]

Str(s) == [t |-> "str", v |-> s]

Num(i) == [t |-> "int", v |-> i]

EmptyDict == << >>

\* Python truthiness of a configuration value
Truthy(x) ==
    CASE x.t = "list" -> x.v # << >>
      [] x.t = "map"  -> DOMAIN x.v # {}
      [] x.t = "str"  -> x.v # << >>
      [] x.t = "int"  -> x.v # 0
      [] x.t = "bool" -> x.v
      [] x.t = "float" -> x.v[1] # 0
      [] OTHER        -> FALSE

\* dict.get(key, default)
Get(d, key, default) == IF key \in DOMAIN d THEN d[key] ELSE default

EntryA == Map([name |-> "A", display_time |-> 1, renderer |-> "TextRenderer", text |-> << "hi" >>])

EntryB == Map([name |-> "B", display_time |-> 1, renderer |-> "TimeRenderer"])

EntrySolo == Map([name |-> "Solo", display_time |-> 2, renderer |-> "DateRenderer"])

EntryBare == Map([renderer |-> "Nonexistent"])

EntryUnknown == Map([name |-> "U", display_time |-> 1, renderer |-> "Nonexistent"])

EntryZero == Map([name |-> "Z", display_time |-> 0, renderer |-> "TextRenderer"])

EntryNeg == Map([name |-> "Neg", display_time |-> -1, renderer |-> "TimeRenderer"])

\* an entry with neither 'name', 'display_time' nor 'renderer'
EntryMinimal == Map([text |-> << "hello" >>])

\* an entry with no key at all
EntryEmpty == Map(EmptyDict)

\* The parsed configurations the model draws from.
CfgAB == [workspaces |-> List(<< EntryA, EntryB >>)]

CfgSolo == [workspaces |-> List(<< EntrySolo >>)]

CfgBare == [workspaces |-> List(<< EntryBare, EntryA >>)]

CfgUnknown == [workspaces |-> List(<< EntryUnknown, EntryA >>)]

CfgZero == [workspaces |-> List(<< EntryZero, EntryB >>)]

CfgNeg == [workspaces |-> List(<< EntryNeg >>)]

CfgMinimal == [workspaces |-> List(<< EntryMinimal, EntryEmpty, EntrySolo >>)]

CfgNoKey == [title |-> Str(<< "dash" >>)]

CfgPlaceholder == [workspaces |-> Map(EmptyDict)]

CfgEmptyList == [workspaces |-> List(<< >>)]

CfgScalars == [workspaces |-> List(<< Str(<< "a" >>), Str(<< "b" >>) >>)]

CfgMapping == [workspaces |-> Map([name |-> "A", display_time |-> 1])]

CfgMixed == [workspaces |-> List(<< EntryA, Str(<< "b" >>) >>)]

\* Values that are not a mapping: a document that is a list, and None
CfgList == List(<< EntryA >>)

CfgNone == [t |-> "none", v |-> << >>]

Configs == << CfgAB, CfgSolo, CfgBare, CfgUnknown, CfgZero, CfgNeg, EmptyDict, CfgNoKey,
              CfgPlaceholder, CfgEmptyList, CfgScalars, CfgMapping, CfgMixed, CfgMinimal >>

----------------------------------------------------------------------------
(* lib/micropyaml.py: text *)

(* A text is the sequence of its lines (yaml_str.split('\n')) and a line the     *)
(* sequence of its tokens.  A token is one of the marks " ", "-", ":", "#", ".", *)
(* the double quote, a digit, or a word: a run of letters taken whole.  A key is *)
(* one word, and no word of a text is part of another.                          *)

Quote == "\""

Digits == << "0", "1", "2", "3", "4", "5", "6", "7", "8", "9" >>

IsDigit(c) == \E i \in 1..Len(Digits) : Digits[i] = c

DigitValue(c) == (CHOOSE i \in 1..Len(Digits) : Digits[i] = c) - 1

\* str.lstrip()
RECURSIVE LStrip(_)
LStrip(s) == IF s # << >> /\ Head(s) = " " THEN LStrip(Tail(s)) ELSE s

\* str.rstrip()
RECURSIVE RStrip(_)
RStrip(s) == IF s # << >> /\ s[Len(s)] = " " THEN RStrip(SubSeq(s, 1, Len(s) - 1)) ELSE s

\* str.strip()
Strip(s) == RStrip(LStrip(s))

\* str.strip('"')
RECURSIVE StripQuotes(_)
StripQuotes(s) ==
    IF s # << >> /\ Head(s) = Quote THEN StripQuotes(Tail(s))
    ELSE IF s # << >> /\ s[Len(s)] = Quote THEN StripQuotes(SubSeq(s, 1, Len(s) - 1))
    ELSE s

\* c in s
Contains(s, c) == \E i \in 1..Len(s) : s[i] = c

\* s.split(c, 1) of a string that contains c
Split(s, c) ==
    LET at == CHOOSE i \in 1..Len(s) : s[i] = c /\ \A j \in 1..(i - 1) : s[j] # c
    IN  << SubSeq(s, 1, at - 1), SubSeq(s, at + 1, Len(s)) >>

\* str.lower() of a one-word value
Lower(word) ==
    CASE word \in {"true", "True", "TRUE"}    -> "true"
      [] word \in {"false", "False", "FALSE"} -> "false"
      [] OTHER                                -> word

\* the key a line names, as a dictionary key
KeyOf(s) == IF s = << >> THEN "" ELSE s[1]

----------------------------------------------------------------------------
(* lib/micropyaml.py: values *)

Bool(b) == [t |-> "bool", v |-> b]

\* a float as mantissa / 10^scale, trailing zeros of the fraction dropped
Float(mantissa, scale) == [t |-> "float", v |-> << mantissa, scale >>]

None == [t |-> "none", v |-> 0]

\* the key the stack holds for the root level: current_key before any key was seen
NoneKey == "<None>"

Unsigned(s) == IF s # << >> /\ Head(s) = "-" THEN Tail(s) ELSE s

\* int(value) succeeds
IsInt(s) == Unsigned(s) # << >> /\ \A i \in 1..Len(Unsigned(s)) : IsDigit(Unsigned(s)[i])

RECURSIVE Decimal(_, _)
Decimal(s, acc) == IF s = << >> THEN acc ELSE Decimal(Tail(s), 10 * acc + DigitValue(Head(s)))

IntOf(s) == IF Head(s) = "-" THEN 0 - Decimal(Tail(s), 0) ELSE Decimal(s, 0)

\* float(value) succeeds, for a value that holds a "." (decimal notation: no text of
\* the model holds an exponent after a ".")
IsFloat(s) ==
    LET parts == Split(Unsigned(s), ".")
    IN  /\ parts[1] \o parts[2] # << >>
        /\ \A i \in 1..Len(parts[1]) : IsDigit(parts[1][i])
        /\ \A i \in 1..Len(parts[2]) : IsDigit(parts[2][i])

RECURSIVE Normal(_, _)
Normal(mantissa, scale) ==
    IF scale > 0 /\ mantissa % 10 = 0 THEN Normal(mantissa \div 10, scale - 1)
    ELSE Float(mantissa, scale)

FloatOf(s) ==
    LET parts == Split(Unsigned(s), ".")
        m     == Decimal(parts[1] \o parts[2], 0)
    IN  Normal(IF Head(s) = "-" THEN 0 - m ELSE m, Len(parts[2]))

Coerce_CaseSensitive(value) ==
    IF Head(value) = Quote /\ value[Len(value)] = Quote
    THEN Str(SubSeq(value, 2, Len(value) - 1))
    ELSE IF value = << "true" >> THEN Bool(TRUE)
    ELSE IF value = << "false" >> THEN Bool(FALSE)
    ELSE IF Contains(value, ".")
         THEN IF IsFloat(value) THEN FloatOf(value) ELSE Str(value)
    ELSE IF IsInt(value) THEN Num(IntOf(value)) ELSE Str(value)

\* the conversion parse applies to a non-empty value
Coerce(value) ==
    IF Head(value) = Quote /\ value[Len(value)] = Quote
    THEN Str(SubSeq(value, 2, Len(value) - 1))
    ELSE IF Len(value) = 1 /\ Lower(value[1]) = "true" THEN Bool(TRUE)
    ELSE IF Len(value) = 1 /\ Lower(value[1]) = "false" THEN Bool(FALSE)
    ELSE IF Contains(value, ".")
         THEN IF IsFloat(value) THEN FloatOf(value) ELSE Str(value)
    ELSE IF IsInt(value) THEN Num(IntOf(value)) ELSE Str(value)

\* d[key] = v
Put(d, key, v) == [x \in (DOMAIN d) \cup {key} |-> IF x = key THEN v ELSE d[x]]

----------------------------------------------------------------------------
(* lib/micropyaml.py: MicroYAML.parse *)

\* current_list when no list is open; an open list is held as the path of keys that
\* leads to it from `result`
NoList == << >>

\* the locals of parse before the first line; `raised` names the exception that ended
\* the call, "" while none has
ParseStart ==
    [result |-> EmptyDict, current_list |-> NoList, current_key |-> NoneKey,
     indent_stack |-> << 0 >>, key_stack |-> << >>, raised |-> ""]

\* the first loop of parse keeps a line unless it is blank or a comment
Kept(line) == Strip(line) # << >> /\ Head(Strip(line)) # "#"

Indent(line) == Len(line) - Len(LStrip(line))

\* The walk from `result` along key_stack[:-1], then the append to the list at
\* key_stack[-1] (lines 40-50 and 58-69).  A missing key on the way is created as {} and
\* a missing last key as []; a value on the way that is not a mapping makes the walk
\* raise TypeError, and a last value that is not a list has no append: AttributeError.
RECURSIVE AppendAt(_, _, _)
AppendAt(d, path, item) ==
    LET k     == Head(path)
        below == IF k \in DOMAIN d THEN d[k]
                 ELSE IF Len(path) = 1 THEN List(<< >>) ELSE Map(EmptyDict)
    IN  IF Len(path) = 1
        THEN IF below.t = "list"
             THEN [raised |-> "", d |-> Put(d, k, List(Append(below.v, item)))]
             ELSE [raised |-> "AttributeError", d |-> d]
        ELSE IF below.t = "map"
             THEN LET r == AppendAt(below.v, Tail(path), item)
                  IN  [raised |-> r.raised, d |-> Put(d, k, Map(r.d))]
             ELSE [raised |-> "TypeError", d |-> d]

\* The walk from `result` along key_stack, None skipped, then the store of the key
\* (lines 139-146 with a value, 149-157 without).  A value on the way that is not a
\* mapping makes the walk or the store raise TypeError; only `key not in target` on a
\* string that holds the key passes, storing nothing.
RECURSIVE PutAt(_, _, _, _, _)
PutAt(d, path, key, value, has_value) ==
    IF path = << >>
    THEN [raised |-> "",
          d |-> IF has_value THEN Put(d, key, value)
                ELSE IF key \in DOMAIN d THEN d ELSE Put(d, key, Map(EmptyDict))]
    ELSE LET k     == Head(path)
             below == IF k \in DOMAIN d THEN d[k] ELSE Map(EmptyDict)
         IN  IF k = NoneKey THEN PutAt(d, Tail(path), key, value, has_value)
             ELSE IF below.t = "map"
                  THEN LET r == PutAt(below.v, Tail(path), key, value, has_value)
                       IN  [raised |-> r.raised, d |-> Put(d, k, Map(r.d))]
             ELSE IF below.t = "str" /\ Tail(path) = << >> /\ ~has_value
                     /\ Contains(below.v, key)
                  THEN [raised |-> "", d |-> d]
             ELSE [raised |-> "TypeError", d |-> d]

\* A list item: the branch of line 30.  `entry` is what the item appends.
ListItem(s, entry, is_mapping) ==
    IF s.current_list = NoList /\ s.key_stack = << >>
    THEN \* a scalar item is skipped (line 39); a mapping item reads key_stack[-1]
         IF is_mapping THEN [s EXCEPT !.raised = "IndexError"] ELSE s
    ELSE LET path == IF s.current_list = NoList THEN s.key_stack ELSE s.current_list
             r    == AppendAt(s.result, path, entry)
         IN  IF r.raised # "" THEN [s EXCEPT !.raised = r.raised]
             ELSE [s EXCEPT !.result = r.d, !.current_list = path]

\* the item a line starting with "-" appends: a string for a scalar item, a mapping
\* holding the first pair for a 'key: value' item
ItemEntry(item_content) ==
    IF ~Contains(item_content, ":") THEN Str(StripQuotes(item_content))
    ELSE LET pair  == Split(item_content, ":")
             key   == KeyOf(Strip(pair[1]))
             value == Strip(pair[2])
         IN  Map(Put(EmptyDict, key, IF value # << >> THEN Coerce(value) ELSE None))

\* the loop of line 108
RECURSIVE PopTo(_, _, _)
PopTo(indent_stack, key_stack, indent) ==
    IF indent_stack[Len(indent_stack)] >= indent /\ Len(indent_stack) > 1
    THEN PopTo(SubSeq(indent_stack, 1, Len(indent_stack) - 1),
               SubSeq(key_stack, 1, Len(key_stack) - 1), indent)
    ELSE [indent_stack |-> indent_stack, key_stack |-> key_stack]

\* A 'key: value' line: the branch of line 102
KeyValue(s, indent, line) ==
    LET pair   == Split(line, ":")
        key    == KeyOf(Strip(pair[1]))
        value  == Strip(pair[2])
        popped == PopTo(s.indent_stack, s.key_stack, indent)
        deeper == indent > popped.indent_stack[Len(popped.indent_stack)]
        istack == IF deeper THEN Append(popped.indent_stack, indent) ELSE popped.indent_stack
        kstack == IF deeper THEN Append(popped.key_stack, s.current_key) ELSE popped.key_stack
        r      == PutAt(s.result, kstack, key,
                        IF value # << >> THEN Coerce(value) ELSE None, value # << >>)
    IN  [result |-> r.d, current_list |-> NoList, current_key |-> key,
         indent_stack |-> istack, key_stack |-> kstack, raised |-> r.raised]

\* One iteration of the loop of line 24 on a line the first loop kept; a line that is
\* neither an item nor a pair changes nothing
ParseLine(s, raw) ==
    LET indent == Indent(raw)
        line   == Strip(raw)
    IN  IF Head(line) = "-"
        THEN LET item_content == Strip(Tail(line))
             IN  ListItem(s, ItemEntry(item_content), Contains(item_content, ":"))
        ELSE IF Contains(line, ":") THEN KeyValue(s, indent, line)
        ELSE s

\* parse, run to its return or to the exception that ends it
RECURSIVE Parse(_, _)
Parse(lines, s) ==
    IF lines = << >> \/ s.raised # "" THEN s
    ELSE Parse(Tail(lines), IF Kept(Head(lines)) THEN ParseLine(s, Head(lines)) ELSE s)

\* a file: whether it exists, and its lines
File(exists, lines) == [exists |-> exists, lines |-> lines]

\* yaml_str.strip() == "" (line 169)
Blank(lines) == \A i \in 1..Len(lines) : Strip(lines[i]) = << >>

Returned_Partial(s) == s.result

\* what load_file returns once parse has ended: its result, or {} from the handlers of
\* lines 175-183 when it raised
Returned(s) == IF s.raised # "" THEN EmptyDict ELSE s.result

\* MicroYAML.load_file: a missing file (OSError) and an empty one give {}
LoadFile(f) ==
    IF ~f.exists \/ Blank(f.lines) THEN EmptyDict
    ELSE Returned(Parse(f.lines, ParseStart))

\* the token sequence of a line indented by n spaces
RECURSIVE Indented(_, _)
Indented(n, s) == IF n = 0 THEN s ELSE Indented(n - 1, << " " >> \o s)

\* The configuration files main() is started on: none, an empty one, the workspace
\* format of the README, 'workspaces' as a mapping, as a number, as a bare key, and a
\* file without the key
FileWorkspaces ==
    File(TRUE, << << "workspaces", ":" >>,
                  Indented(2, << "-", " ", "name", ":", " ", "A" >>),
                  Indented(4, << "display_time", ":", " ", "1" >>),
                  Indented(2, << "-", " ", "name", ":", " ", "B" >>),
                  Indented(4, << "renderer", ":", " ", "TimeRenderer" >>) >>)

FileMapping ==
    File(TRUE, << << "workspaces", ":" >>, Indented(2, << "name", ":", " ", "A" >>) >>)

FileNumber == File(TRUE, << << "workspaces", ":", " ", "5" >> >>)

FilePlaceholder == File(TRUE, << << "workspaces", ":" >> >>)

FileNoKey == File(TRUE, << << "title", ":", " ", "dash" >> >>)

SetupFiles == << File(FALSE, << >>), File(TRUE, << >>), FileWorkspaces, FileMapping,
                 FileNumber, FilePlaceholder, FileNoKey >>

----------------------------------------------------------------------------
(* Workspaces *)

\* Workspace(name, display_time) with the renderer set_renderer attaches; a text is the
\* tuple of the pieces an f-string joins
Workspace(name, display_time, renderer, text) ==
    [name |-> name, display_time |-> display_time, renderer |-> renderer, text |-> text]

WorkspaceFromEntry_NoDefaults(ws_config) ==
    LET name          == Get(ws_config, "name", "")
        display_time  == Get(ws_config, "display_time", DEFAULT_DISPLAY_TIME)
        renderer_type == Get(ws_config, "renderer", "TextRenderer")
    IN  IF renderer_type = "TimeRenderer" THEN Workspace(name, display_time, "TimeRenderer", << >>)
        ELSE IF renderer_type = "DateRenderer" THEN Workspace(name, display_time, "DateRenderer", << >>)
        ELSE IF renderer_type = "TextRenderer"
             THEN Workspace(name, display_time, "TextRenderer", Get(ws_config, "text", << >>))
        ELSE Workspace(name, display_time, "TextRenderer", << "Error: Unknown renderer ", renderer_type >>)

WorkspaceFromEntry_Anonymous(ws_config) ==
    LET name          == Get(ws_config, "name", "Unnamed")
        display_time  == Get(ws_config, "display_time", DEFAULT_DISPLAY_TIME)
        renderer_type == Get(ws_config, "renderer", "TextRenderer")
    IN  IF renderer_type = "TimeRenderer" THEN Workspace(name, display_time, "TimeRenderer", << >>)
        ELSE IF renderer_type = "DateRenderer" THEN Workspace(name, display_time, "DateRenderer", << >>)
        ELSE IF renderer_type = "TextRenderer"
             THEN Workspace(name, display_time, "TextRenderer", Get(ws_config, "text", << "Default Text" >>))
        ELSE Workspace(name, display_time, "TextRenderer", << "Error: Unknown renderer " >>)

\* One iteration of the loop of load_from_config: the workspace built from one entry
WorkspaceFromEntry(ws_config) ==
    LET name          == Get(ws_config, "name", "Unnamed")
        display_time  == Get(ws_config, "display_time", DEFAULT_DISPLAY_TIME)
        renderer_type == Get(ws_config, "renderer", "TextRenderer")
    IN  IF renderer_type = "TimeRenderer" THEN Workspace(name, display_time, "TimeRenderer", << >>)
        ELSE IF renderer_type = "DateRenderer" THEN Workspace(name, display_time, "DateRenderer", << >>)
        ELSE IF renderer_type = "TextRenderer"
             THEN Workspace(name, display_time, "TextRenderer", Get(ws_config, "text", << "Default Text" >>))
        ELSE Workspace(name, display_time, "TextRenderer",
                       << "Error: Unknown renderer ", renderer_type >>)

\* The loop of load_from_config over a list: entries are appended until one is not a
\* mapping (ws_config.get raises AttributeError); `raised` tells whether that happened.
RECURSIVE BuildList(_, _)
BuildList(entries, acc) ==
    IF entries = << >> THEN [workspaces |-> acc, raised |-> FALSE]
    ELSE IF Head(entries).t # "map" THEN [workspaces |-> acc, raised |-> TRUE]
    ELSE BuildList(Tail(entries), Append(acc, WorkspaceFromEntry(Head(entries).v)))

\* isinstance(config_dict, dict): a mapping is the function from its keys, every other
\* value carries its type in t and its content in v
IsDict(config_dict) == ~({"t", "v"} \subseteq DOMAIN config_dict)

LoadFromConfig_ClearsFirst(config_dict, old) ==
    IF ~IsDict(config_dict) \/ "workspaces" \notin DOMAIN config_dict
    THEN [workspaces |-> << >>, ok |-> FALSE, raised |-> FALSE]
    ELSE LET w == config_dict["workspaces"]
             built ==
                CASE w.t = "list" -> BuildList(w.v, << >>)
                  [] w.t \in {"map", "str"} -> [workspaces |-> << >>, raised |-> Truthy(w)]
                  [] OTHER -> [workspaces |-> << >>, raised |-> TRUE]
         IN  [workspaces |-> built.workspaces,
              ok |-> (~built.raised /\ Len(built.workspaces) > 0),
              raised |-> built.raised]

LoadFromConfig_AlwaysTrue(config_dict, old) ==
    IF ~IsDict(config_dict) \/ "workspaces" \notin DOMAIN config_dict
    THEN [workspaces |-> old, ok |-> FALSE, raised |-> FALSE]
    ELSE LET w == config_dict["workspaces"]
             built ==
                CASE w.t = "list" -> BuildList(w.v, << >>)
                  [] w.t \in {"map", "str"} -> [workspaces |-> << >>, raised |-> Truthy(w)]
                  [] OTHER -> [workspaces |-> << >>, raised |-> TRUE]
         IN  [workspaces |-> built.workspaces, ok |-> ~built.raised, raised |-> built.raised]

\* WorkspaceManager.load_from_config: the list it leaves, its return value, and whether
\* it raised instead of returning.
LoadFromConfig(config_dict, old) ==
    IF ~IsDict(config_dict) \/ "workspaces" \notin DOMAIN config_dict
    THEN [workspaces |-> old, ok |-> FALSE, raised |-> FALSE]
    ELSE LET w == config_dict["workspaces"]
             built ==
                CASE w.t = "list" -> BuildList(w.v, << >>)
                  \* iterating a mapping or a string yields strings: .get raises on the first
                  [] w.t \in {"map", "str"} -> [workspaces |-> << >>, raised |-> Truthy(w)]
                  \* a number is not iterable: TypeError
                  [] OTHER -> [workspaces |-> << >>, raised |-> TRUE]
         IN  [workspaces |-> built.workspaces,
              ok |-> (~built.raised /\ Len(built.workspaces) > 0),
              raised |-> built.raised]

DefaultConfig_Five ==
    [workspaces |-> List(<< Map([name |-> "Default Workspace", display_time |-> 5,
                                  renderer |-> "TextRenderer",
                                  text |-> << "PicoDash - Default Config" >>]) >>)]

\* The configuration load_workspace_config substitutes for a missing, empty or
\* workspace-less file
DefaultConfig ==
    [workspaces |-> List(<< Map([name |-> "Default Workspace", display_time |-> 10,
                                  renderer |-> "TextRenderer",
                                  text |-> << "PicoDash - Default Config" >>]) >>)]

\* load_workspace_config, given what MicroYAML.load_file returned
LoadWorkspaceConfig(config) ==
    IF config = EmptyDict \/ "workspaces" \notin DOMAIN config \/ ~Truthy(config["workspaces"])
    THEN DefaultConfig
    ELSE config

ErrorWorkspace == Workspace("Error", 10, "TextRenderer", << "Failed to load workspaces" >>)

\* the workspace main() appends, with the counts fetch_data returns
NotificationWorkspace ==
    Workspace("Notifications", 10, "TextRenderer",
              << "Notifications: ", "5", ", Unread: ", "2" >>)

----------------------------------------------------------------------------
(* Clock *)

\* time.ticks_diff on a clock that has not wrapped
TicksDiff(a, b) == a - b

\* the dwell of a workspace in milliseconds
DwellMs(ws) == ws.display_time * 1000

DwellExpired_Strict(t, since, ws) == TicksDiff(t, since) > DwellMs(ws)

\* the test of update() that starts an automatic transition
DwellExpired(t, since, ws) == TicksDiff(t, since) >= DwellMs(ws)

AnimationOver_Exact(t, start) == TicksDiff(t, start) = SCROLL_ANIMATION_MS

\* the test of update() that ends a Sliding episode
AnimationOver(t, start) == TicksDiff(t, start) >= SCROLL_ANIMATION_MS

Call(op, ws, dx) == [op |-> op, ws |-> ws, dx |-> dx]

----------------------------------------------------------------------------
\* WorkspaceManager.__init__ at the import of main.py
Constructed ==
    /\ phase = "boot"
    /\ now = 0
    /\ workspaces = << >>
    /\ current_index = 0
    /\ last_change_time = 0
    /\ is_transitioning = FALSE
    /\ transition_start = 0
    /\ transition_progress = 0
    /\ next_index = NoIndex
    /\ event = "init"
    /\ ops = << >>
    /\ presses = 0
    /\ episodes = << >>
    /\ last_config = EmptyDict
    /\ failed = ""
    /\ error_led = FALSE
    /\ streak = 0
    /\ pos = 0
    /\ ps = ParseStart
    /\ ret = EmptyDict

\* the readings of time.localtime(): year, month, day, hour, minute
LocalTimes == << << 2021, 1, 1, 0, 0 >>, << 2024, 3, 9, 9, 5 >>, << 2024, 3, 9, 9, 59 >>,
                 << 2024, 3, 9, 10, 0 >>, << 2024, 12, 31, 23, 59 >>,
                 << 2025, 1, 1, 0, 0 >> >>

RendererKinds == {"TimeRenderer", "DateRenderer", "TextRenderer"}

\* TimeRenderer(), DateRenderer() and TextRenderer(text) as their constructors leave
\* them, the clock at its first reading
RenderersConstructed(text) ==
    /\ renderers = [TimeRenderer |-> << >>, DateRenderer |-> << >>, TextRenderer |-> text]
    /\ localtime = LocalTimes[1]
    /\ updates = [k \in RendererKinds |-> 0]
    /\ rcall = [op |-> "init", kind |-> "", display |-> << >>]

Init ==
    /\ Constructed
    /\ RenderersConstructed(<< "Welcome" >>)
    /\ pc = "idle"
    /\ file = File(FALSE, << >>)

----------------------------------------------------------------------------
(* WorkspaceManager *)

\* A renderer whose update() does more than `pass`: TimeRenderer and DateRenderer read
\* time.localtime() and format it, which may raise
Fallible(ws) == ws.renderer \in {"TimeRenderer", "DateRenderer"}

\* the streak of failed paints after one more paint
Streak(fail) == IF fail = "none" THEN 0 ELSE IF streak < MaxStreak THEN streak + 1 ELSE streak

StartTransition_NoOpWhenSame(fail) ==
    LET target == (current_index + 1) % Len(workspaces)
    IN  /\ fail = "none"
           \/ /\ fail = "update"
              /\ Fallible(workspaces[current_index + 1]) \/ Fallible(workspaces[target + 1])
        /\ is_transitioning' = (target # current_index)
        /\ transition_start' = IF target # current_index THEN now ELSE transition_start
        /\ transition_progress' = 0
        /\ next_index' = target
        /\ ops' = IF target = current_index THEN << >>
                  ELSE IF fail = "update" /\ Fallible(workspaces[current_index + 1])
                  THEN << Call("update", current_index, 0) >>
                  ELSE << Call("update", current_index, 0), Call("update", target, 0) >>
        /\ failed' = IF fail = "update" THEN "prepare" ELSE ""
        /\ streak' = 0

StartTransition_KeepsProgress(fail) ==
    LET target == (current_index + 1) % Len(workspaces)
    IN  /\ fail = "none"
           \/ /\ fail = "update"
              /\ Fallible(workspaces[current_index + 1]) \/ Fallible(workspaces[target + 1])
        /\ is_transitioning' = TRUE
        /\ transition_start' = now
        /\ transition_progress' = transition_progress
        /\ next_index' = target
        /\ ops' = IF fail = "update" /\ Fallible(workspaces[current_index + 1])
                  THEN << Call("update", current_index, 0) >>
                  ELSE << Call("update", current_index, 0), Call("update", target, 0) >>
        /\ failed' = IF fail = "update" THEN "prepare" ELSE ""
        /\ streak' = 0

StartTransition_PreparesNext(fail) ==
    LET target == (current_index + 1) % Len(workspaces)
    IN  /\ fail = "none"
           \/ /\ fail = "update"
              /\ Fallible(workspaces[current_index + 1]) \/ Fallible(workspaces[target + 1])
        /\ is_transitioning' = TRUE
        /\ transition_start' = now
        /\ transition_progress' = 0
        /\ next_index' = target
        /\ ops' = << Call("update", target, 0) >>
        /\ failed' = IF fail = "update" THEN "prepare" ELSE ""
        /\ streak' = 0

\* WorkspaceManager._start_transition; with fail = "update" the first renderer update()
\* that can raise does, after the fields were set, and the exception leaves the method
StartTransition(fail) ==
    LET target == (current_index + 1) % Len(workspaces)
    IN  /\ fail = "none"
           \/ /\ fail = "update"
              /\ Fallible(workspaces[current_index + 1]) \/ Fallible(workspaces[target + 1])
        /\ is_transitioning' = TRUE
        /\ transition_start' = now
        /\ transition_progress' = 0
        /\ next_index' = target
        /\ ops' = IF fail = "update" /\ Fallible(workspaces[current_index + 1])
                  THEN << Call("update", current_index, 0) >>
                  ELSE << Call("update", current_index, 0), Call("update", target, 0) >>
        /\ failed' = IF fail = "update" THEN "prepare" ELSE ""
        /\ streak' = 0

Offset_Eased(progress) ==
    (progress * progress * DISPLAY_WIDTH) \div (SCROLL_ANIMATION_MS * SCROLL_ANIMATION_MS)

\* int(self.transition_progress * self.display_width)
Offset(progress) == (progress * DISPLAY_WIDTH) \div SCROLL_ANIMATION_MS

RenderTransition_SkipsRest(progress, fail) ==
    /\ fail \in {"none", "clear", "out"}
    /\ ops' = IF fail = "clear" THEN << >>
              ELSE IF fail = "out"
              THEN << Call("render_with_offset", current_index, 0 - Offset(progress)) >>
              ELSE << Call("render_with_offset", current_index, 0 - Offset(progress)),
                      Call("render_with_offset", next_index, DISPLAY_WIDTH - Offset(progress)) >>
    /\ failed' = IF fail = "none" THEN "" ELSE fail
    /\ streak' = Streak(fail)
    /\ IF progress >= SCROLL_ANIMATION_MS /\ fail # "clear"
       THEN /\ current_index' = next_index
            /\ is_transitioning' = FALSE
            /\ episodes' = Append(episodes, next_index)
       ELSE UNCHANGED << current_index, is_transitioning, episodes >>

\* WorkspaceManager._render_transition, transition_progress being already set.  A
\* failing display.clear() ("clear") is caught by the outer handler, past both renders; a
\* display call failing inside the outgoing workspace's render_with_offset ("out") is
\* caught there and the frame goes on, as it does after any later call of the frame.
RenderTransition(progress, fail) ==
    /\ fail \in {"none", "clear", "out"}
    /\ ops' = IF fail = "clear" THEN << >>
              ELSE << Call("render_with_offset", current_index, 0 - Offset(progress)),
                      Call("render_with_offset", next_index, DISPLAY_WIDTH - Offset(progress)) >>
    /\ failed' = IF fail = "none" THEN "" ELSE fail
    /\ streak' = Streak(fail)
    /\ IF progress >= SCROLL_ANIMATION_MS /\ fail # "clear"
       THEN /\ current_index' = next_index
            /\ is_transitioning' = FALSE
            /\ episodes' = Append(episodes, next_index)
       ELSE UNCHANGED << current_index, is_transitioning, episodes >>

Update_CompletionReturns(fail) ==
    LET current_time == now
        elapsed == TicksDiff(current_time, transition_start)
        complete == is_transitioning /\ AnimationOver(current_time, transition_start)
        since == IF complete THEN current_time ELSE last_change_time
    IN  IF workspaces = << >>
        THEN /\ fail = "none"
             /\ UNCHANGED << mgr, episodes, failed, streak >>
             /\ ops' = << >>
        ELSE IF is_transitioning /\ ~complete
        THEN /\ transition_progress' = elapsed
             /\ RenderTransition(elapsed, fail)
             /\ UNCHANGED << workspaces, last_change_time, transition_start, next_index >>
        ELSE /\ last_change_time' = since
             /\ episodes' = IF complete THEN Append(episodes, current_index) ELSE episodes
             /\ UNCHANGED << workspaces, current_index >>
             /\ IF DwellExpired(current_time, since, workspaces[current_index + 1])
                THEN StartTransition(fail)
                ELSE /\ \/ fail \in {"none", "render"}
                        \/ (fail = "update" /\ Fallible(workspaces[current_index + 1]))
                     /\ is_transitioning' = FALSE
                     /\ ops' = IF complete THEN << >>
                               ELSE IF fail = "update"
                               THEN << Call("update", current_index, 0) >>
                               ELSE << Call("update", current_index, 0),
                                       Call("render", current_index, 0) >>
                     /\ failed' = IF fail = "none" THEN "" ELSE fail
                     /\ streak' = Streak(fail)
                     /\ UNCHANGED << transition_start, transition_progress, next_index >>

Update_RenderFirst(fail) ==
    LET current_time == now
        elapsed == TicksDiff(current_time, transition_start)
        complete == is_transitioning /\ AnimationOver(current_time, transition_start)
        since == IF complete THEN current_time ELSE last_change_time
    IN  IF workspaces = << >>
        THEN /\ fail = "none"
             /\ UNCHANGED << mgr, episodes, failed, streak >>
             /\ ops' = << >>
        ELSE IF is_transitioning /\ ~complete
        THEN /\ transition_progress' = elapsed
             /\ RenderTransition(elapsed, fail)
             /\ UNCHANGED << workspaces, last_change_time, transition_start, next_index >>
        ELSE /\ last_change_time' = since
             /\ episodes' = IF complete THEN Append(episodes, current_index) ELSE episodes
             /\ UNCHANGED << workspaces, current_index >>
             /\ IF DwellExpired(current_time, since, workspaces[current_index + 1])
                THEN StartTransition(fail)
                ELSE /\ \/ fail \in {"none", "render"}
                        \/ (fail = "update" /\ Fallible(workspaces[current_index + 1]))
                     /\ is_transitioning' = FALSE
                     /\ ops' = IF fail = "update"
                               THEN << Call("update", current_index, 0) >>
                               ELSE << Call("render", current_index, 0),
                                       Call("update", current_index, 0) >>
                     /\ failed' = IF fail = "none" THEN "" ELSE fail
                     /\ streak' = Streak(fail)
                     /\ UNCHANGED << transition_start, transition_progress, next_index >>

\* WorkspaceManager.update; `fail` names the call that raises during it, "none" if no
\* call does.  In the regular paint "update" is the renderer's update() raising, which
\* skips render(), and "render" a display call failing inside render(), which the
\* renderer catches.
Update(fail) ==
    LET current_time == now
        elapsed == TicksDiff(current_time, transition_start)
        complete == is_transitioning /\ AnimationOver(current_time, transition_start)
        since == IF complete THEN current_time ELSE last_change_time
    IN  IF workspaces = << >>
        THEN /\ fail = "none"
             /\ UNCHANGED << mgr, episodes, failed, streak >>
             /\ ops' = << >>
        ELSE IF is_transitioning /\ ~complete
        THEN /\ transition_progress' = elapsed
             /\ RenderTransition(elapsed, fail)
             /\ UNCHANGED << workspaces, last_change_time, transition_start, next_index >>
        ELSE /\ last_change_time' = since
             /\ episodes' = IF complete THEN Append(episodes, current_index) ELSE episodes
             /\ UNCHANGED << workspaces, current_index >>
             /\ IF DwellExpired(current_time, since, workspaces[current_index + 1])
                THEN StartTransition(fail)
                ELSE /\ \/ fail \in {"none", "render"}
                        \/ (fail = "update" /\ Fallible(workspaces[current_index + 1]))
                     /\ is_transitioning' = FALSE
                     /\ ops' = IF fail = "update"
                               THEN << Call("update", current_index, 0) >>
                               ELSE << Call("update", current_index, 0),
                                       Call("render", current_index, 0) >>
                     /\ failed' = IF fail = "none" THEN "" ELSE fail
                     /\ streak' = Streak(fail)
                     /\ UNCHANGED << transition_start, transition_progress, next_index >>

----------------------------------------------------------------------------
(* main.py *)
MainSetup_ResetsTimer(f, extra) ==
    LET parsed == LoadFile(f)
        cfg == LoadWorkspaceConfig(parsed)
        r == LoadFromConfig(cfg, workspaces)
        loaded == IF r.ok THEN r.workspaces ELSE Append(r.workspaces, ErrorWorkspace)
        all == IF Len(loaded) > 0 THEN Append(loaded, NotificationWorkspace) ELSE loaded
    IN  /\ phase = "boot"
        /\ event = "init"
        /\ event' = "main"
        /\ now' = now + SPLASH_MS + extra + (IF r.ok \/ r.raised THEN 0 ELSE ERROR_LED_MS)
        /\ IF r.raised
           THEN /\ phase' = "crashed"
                /\ workspaces' = r.workspaces
                /\ ops' = << >>
           ELSE /\ phase' = "run"
                /\ workspaces' = all
                /\ ops' = IF Len(all) > 0
                          THEN << Call("update", 0, 0), Call("render", 0, 0) >>
                          ELSE << >>
        /\ last_config' = cfg
        /\ error_led' = ~r.ok
        /\ last_change_time' = now'
        /\ file' = f
        /\ ret' = parsed
        /\ UNCHANGED << current_index, is_transitioning, transition_start,
                        transition_progress, next_index, presses, episodes, failed, streak,
                        pc, pos, ps, rend >>

\* main(): configuration load, manager set-up and the first render, up to the main loop.
\* An exception of load_from_config reaches the handler around the whole of main, which
\* ends it; a False return adds the Error workspace and flashes the LED.
MainSetup(f, extra) ==
    LET parsed == LoadFile(f)
        cfg == LoadWorkspaceConfig(parsed)
        r == LoadFromConfig(cfg, workspaces)
        loaded == IF r.ok THEN r.workspaces ELSE Append(r.workspaces, ErrorWorkspace)
        all == IF Len(loaded) > 0 THEN Append(loaded, NotificationWorkspace) ELSE loaded
    IN  /\ phase = "boot"
        /\ event = "init"
        /\ event' = "main"
        /\ now' = now + SPLASH_MS + extra + (IF r.ok \/ r.raised THEN 0 ELSE ERROR_LED_MS)
        /\ IF r.raised
           THEN /\ phase' = "crashed"
                /\ workspaces' = r.workspaces
                /\ ops' = << >>
           ELSE /\ phase' = "run"
                /\ workspaces' = all
                /\ ops' = IF Len(all) > 0
                          THEN << Call("update", 0, 0), Call("render", 0, 0) >>
                          ELSE << >>
        /\ last_config' = cfg
        /\ error_led' = ~r.ok
        /\ file' = f
        /\ ret' = parsed
        /\ UNCHANGED << current_index, last_change_time, is_transitioning, transition_start,
                        transition_progress, next_index, presses, episodes, failed, streak,
                        pc, pos, ps, rend >>

\* The manager loaded without main's set-up: load_from_config called on the manager,
\* once or again on the list of an earlier call, before the loop runs; the loop starts
\* once the last call has returned True
DirectLoad(config_dict) ==
    LET r == LoadFromConfig(config_dict, workspaces)
    IN  /\ phase = "boot" \/ (phase = "run" /\ event = "load")
        /\ event' = "load"
        /\ phase' = IF r.raised THEN "crashed" ELSE IF r.ok THEN "run" ELSE "boot"
        /\ workspaces' = r.workspaces
        /\ ops' = << >>
        /\ last_config' = config_dict
        /\ UNCHANGED << now, current_index, last_change_time, is_transitioning,
                        transition_start, transition_progress, next_index, presses,
                        episodes, health, parser, rend >>

\* load_from_config called on the manager in whatever state it is, the loop running or
\* not; the loop runs on once the call has returned True
Reload(config_dict) ==
    LET r == LoadFromConfig(config_dict, workspaces)
    IN  /\ phase \in {"boot", "run"}
        /\ event' = "load"
        /\ phase' = IF r.raised THEN "crashed" ELSE IF r.ok THEN "run" ELSE "boot"
        /\ workspaces' = r.workspaces
        /\ ops' = << >>
        /\ last_config' = config_dict
        /\ UNCHANGED << now, current_index, last_change_time, is_transitioning,
                        transition_start, transition_progress, next_index, presses,
                        episodes, health, parser, rend >>

\* the calls that may raise during a tick
Failures == {"none", "update", "render", "clear", "out"}

\* One iteration of the main loop with no button pressed: update(), then sleep(0.1).
\* An exception leaving update() is caught by the loop, which paints its fallback screen
\* and runs show_error_led before it sleeps.
\* The notification refresh of the loop is due only REFRESH_INTERVAL_MS (60 s) after the
\* last press or refresh, beyond MaxTime, and writes nothing but a renderer's text.
\* Both clock reads of a tick (update and _start_transition) return `now`.
Tick ==
    \E fail \in Failures :
        /\ phase = "run"
        /\ event' = "update"
        /\ Update(fail)
        /\ now' = now + LOOP_SLEEP_MS + (IF failed' = "prepare" THEN ERROR_LED_MS ELSE 0)
        /\ now' <= MaxTime
        /\ error_led' = (error_led \/ failed' = "prepare")
        /\ UNCHANGED << phase, presses, last_config, parser, rend >>

\* What every button branch of the loop shares: the press is consumed and update() is
\* skipped; the loop sleeps the debounce time after `took` ms in the handler, unless the
\* handler raised: handle_buttons is called outside every try of the loop, so its
\* exception reaches the handler around the whole of main and the loop is over
Pressed(name, took, raised) ==
    /\ phase = "run"
    /\ presses < MaxPresses
    /\ now + took + DEBOUNCE_MS <= MaxTime
    /\ presses' = presses + 1
    /\ event' = name
    /\ phase' = IF raised THEN "crashed" ELSE phase
    /\ now' = IF raised THEN now + took ELSE now + took + DEBOUNCE_MS
    /\ error_led' = (error_led \/ raised)
    /\ UNCHANGED << episodes, last_config, parser, rend >>

ButtonA_Direct ==
    /\ Pressed("A", 0, FALSE)
    /\ failed' = ""
    /\ IF workspaces # << >> /\ ~is_transitioning
       THEN /\ current_index' = (current_index + 1) % Len(workspaces)
            /\ last_change_time' = now
            /\ ops' = << Call("update", current_index', 0), Call("render", current_index', 0) >>
            /\ streak' = 0
            /\ UNCHANGED << workspaces, is_transitioning, transition_start,
                            transition_progress, next_index >>
       ELSE /\ UNCHANGED << mgr, streak >>
            /\ ops' = << >>

ButtonA_Restart ==
    \E fail \in {"none", "update"} :
        /\ Pressed("A", 0, fail = "update")
        /\ IF workspaces # << >>
           THEN /\ StartTransition(fail)
                /\ UNCHANGED << workspaces, current_index, last_change_time >>
           ELSE /\ fail = "none"
                /\ UNCHANGED << mgr, streak >>
                /\ failed' = ""
                /\ ops' = << >>

\* handle_buttons, Button A: force the transition to the next workspace
ButtonA ==
    \E fail \in {"none", "update"} :
        /\ Pressed("A", 0, fail = "update")
        /\ IF workspaces # << >> /\ ~is_transitioning
           THEN /\ StartTransition(fail)
                /\ UNCHANGED << workspaces, current_index, last_change_time >>
           ELSE /\ fail = "none"
                /\ UNCHANGED << mgr, streak >>
                /\ failed' = ""
                /\ ops' = << >>

\* handle_buttons, Button B: connect_wifi, which may wait for the connection
ButtonB ==
    /\ \E wait \in {0, WIFI_RETRY_MS} : Pressed("B", wait, FALSE)
    /\ UNCHANGED << mgr, streak >>
    /\ failed' = ""
    /\ ops' = << >>

\* handle_buttons, Button X: the system information screen, shown for 3 seconds; its
\* display.clear() is called bare and may raise
ButtonX ==
    \E fail \in {"none", "clear"} :
        /\ Pressed("X", IF fail = "none" THEN INFO_SLEEP_MS ELSE 0, fail # "none")
        /\ UNCHANGED << mgr, streak >>
        /\ failed' = IF fail = "none" THEN "" ELSE fail
        /\ ops' = << >>

ButtonY_ResetsTimer ==
    /\ Pressed("Y", 0, FALSE)
    /\ current_index' = IF workspaces # << >> THEN 0 ELSE current_index
    /\ last_change_time' = IF workspaces # << >> THEN now ELSE last_change_time
    /\ ops' = << >>
    /\ failed' = ""
    /\ UNCHANGED << workspaces, is_transitioning, transition_start,
                    transition_progress, next_index, streak >>

\* handle_buttons, Button Y: return to the first workspace
ButtonY ==
    /\ Pressed("Y", 0, FALSE)
    /\ current_index' = IF workspaces # << >> THEN 0 ELSE current_index
    /\ ops' = << >>
    /\ failed' = ""
    /\ UNCHANGED << workspaces, last_change_time, is_transitioning, transition_start,
                    transition_progress, next_index, streak >>

Next ==
    \/ \E i \in 1..Len(SetupFiles), extra \in BootExtra : MainSetup(SetupFiles[i], extra)
    \/ \E i \in 1..Len(Configs) : DirectLoad(Configs[i])
    \/ Tick
    \/ ButtonA
    \/ ButtonB
    \/ ButtonX
    \/ ButtonY

Spec == Init /\ [][Next]_vars

\* The values load_from_config is called with while the loop runs
ReloadConfigs == << CfgAB, CfgZero, CfgEmptyList, CfgNoKey, CfgList, CfgNone >>

NextReload ==
    \/ \E i \in 1..Len(ReloadConfigs) : Reload(ReloadConfigs[i])
    \/ Tick

NextTicks ==
    \/ \E i \in 1..Len(Configs) : DirectLoad(Configs[i])
    \/ Tick

\* The loaded manager under the loop of main with no button pressed: `while True`
\* calls update() again after every sleep, so a tick that can be taken is taken
SpecTicks == Init /\ [][NextTicks]_vars /\ WF_vars(Tick)

\* The manager reloaded at any time between ticks
SpecReload == Init /\ [][NextReload]_vars

----------------------------------------------------------------------------
(* MicroYAML.load_file called on a file drawn from the texts of at most MaxLines of *)
(* the lines below                                                                *)

Lines ==
    { << "k", ":" >>,
      << "p", ":" >>,
      << "a", ":", " ", "1" >>,
      Indented(2, << "k", ":" >>),
      Indented(2, << "x", ":", " ", "1" >>),
      Indented(2, << "y", ":", " ", "b" >>),
      Indented(4, << "z", ":", " ", "2" >>),
      Indented(2, << "-", " ", "a" >>),
      Indented(2, << "-", " ", Quote, "b", Quote >>),
      Indented(2, << "-", " ", "k", ":", " ", "v" >>),
      << "#", " ", "c" >>,
      << "plain" >>,
      << >> }

Texts == UNION { [1..n -> Lines] : n \in 0..MaxLines }

\* The values a line may hold after its colon: quoted text, booleans in three
\* spellings, integers, floats, text, digits that are no number, the exponent notation
\* float() accepts, and a value followed by a comment
Values ==
    { << Quote, "b", Quote >>,
      << Quote, "5", Quote >>,
      << Quote, "true", Quote >>,
      << "true" >>,
      << "False" >>,
      << "TRUE" >>,
      << "1", "2" >>,
      << "-", "3" >>,
      << "1", ".", "5" >>,
      << "-", ".", "5" >>,
      << "1", ".", "2", ".", "3" >>,
      << "." >>,
      << "1", "-" >>,
      << "b" >>,
      << "1", "e", "5" >>,
      << "5", " ", "#", " ", "seconds" >> }

\* the key of the lines that hold them
ValueKey == "display_time"

\* 'key: value' indented by n spaces; 'key:' for the empty value
PairOf(n, value) ==
    Indented(n, IF value = << >> THEN << ValueKey, ":" >>
                ELSE << ValueKey, ":", " " >> \o value)

\* '- key: value'
ItemOf(value) == Indented(2, << "-", " ", ValueKey, ":", " " >> \o value)

\* an indented first line, after which a list item has a list to go to
Opener == Indented(2, << "x", ":", " ", "1" >>)

\* Each value on a line of its own, as the first pair of a list item, and on the
\* second of two lines that name the same key at the top level
ValueTexts ==
    { << PairOf(n, v) >> : n \in {0, 2}, v \in Values }
       \cup { << Opener, ItemOf(v) >> : v \in Values }
       \cup { << PairOf(0, v), PairOf(0, w) >> : v, w \in Values \cup {<< >>} }

InitParse ==
    /\ Constructed
    /\ RenderersConstructed(<< "Welcome" >>)
    /\ pc = "call"
    /\ file \in {File(FALSE, << >>)} \cup {File(TRUE, t) : t \in Texts \cup ValueTexts}

\* what a step of load_file leaves alone
OutsideParser ==
    UNCHANGED << phase, now, mgr, ops, presses, episodes, last_config, health, file, rend >>

\* load_file up to the call of parse: a missing file (OSError) and an empty one return {}
Open ==
    /\ pc = "call"
    /\ event' = "open"
    /\ IF ~file.exists \/ Blank(file.lines)
       THEN pc' = "done" /\ ret' = EmptyDict
       ELSE pc' = "parse" /\ ret' = ret
    /\ UNCHANGED << pos, ps >>
    /\ OutsideParser

\* the line parse is at
AtLine == pc = "parse" /\ ps.raised = "" /\ pos < Len(file.lines)

\* a blank or comment line, dropped by the first loop of parse
DroppedLine ==
    /\ AtLine
    /\ ~Kept(file.lines[pos + 1])
    /\ event' = "dropped"
    /\ pos' = pos + 1
    /\ UNCHANGED << pc, ps, ret >>
    /\ OutsideParser

\* a line starting with "-"
ItemLine ==
    /\ AtLine
    /\ Kept(file.lines[pos + 1])
    /\ Head(Strip(file.lines[pos + 1])) = "-"
    /\ event' = "item"
    /\ ps' = ParseLine(ps, file.lines[pos + 1])
    /\ pos' = pos + 1
    /\ UNCHANGED << pc, ret >>
    /\ OutsideParser

\* a 'key: value' or 'key:' line
PairLine ==
    /\ AtLine
    /\ Kept(file.lines[pos + 1])
    /\ Head(Strip(file.lines[pos + 1])) # "-"
    /\ Contains(file.lines[pos + 1], ":")
    /\ event' = "pair"
    /\ ps' = ParseLine(ps, file.lines[pos + 1])
    /\ pos' = pos + 1
    /\ UNCHANGED << pc, ret >>
    /\ OutsideParser

\* a line that is neither
PlainLine ==
    /\ AtLine
    /\ Kept(file.lines[pos + 1])
    /\ Head(Strip(file.lines[pos + 1])) # "-"
    /\ ~Contains(file.lines[pos + 1], ":")
    /\ event' = "plain"
    /\ ps' = ParseLine(ps, file.lines[pos + 1])
    /\ pos' = pos + 1
    /\ UNCHANGED << pc, ret >>
    /\ OutsideParser

\* parse returns its result and load_file hands it on
Return ==
    /\ pc = "parse"
    /\ ps.raised = ""
    /\ pos = Len(file.lines)
    /\ event' = "return"
    /\ pc' = "done"
    /\ ret' = Returned(ps)
    /\ UNCHANGED << pos, ps >>
    /\ OutsideParser

\* parse raised: one of the handlers of load_file runs
Caught ==
    /\ pc = "parse"
    /\ ps.raised # ""
    /\ event' = "except"
    /\ pc' = "done"
    /\ ret' = Returned(ps)
    /\ UNCHANGED << pos, ps >>
    /\ OutsideParser

NextParse ==
    \/ Open
    \/ DroppedLine
    \/ ItemLine
    \/ PairLine
    \/ PlainLine
    \/ Return
    \/ Caught

SpecParse == InitParse /\ [][NextParse]_vars

----------------------------------------------------------------------------
(* Properties *)

\* the workspace update() reads as current_workspace
Current == workspaces[current_index + 1]

AllPositive == \A i \in 1..Len(workspaces) : workspaces[i].display_time > 0

RECURSIVE SumDwell(_)
SumDwell(ws) == IF ws = << >> THEN 0 ELSE Head(ws).display_time * 1000 + SumDwell(Tail(ws))

\* the time one full cycle takes: every dwell plus one animation window per workspace
CycleMs == SumDwell(workspaces) + Len(workspaces) * SCROLL_ANIMATION_MS

\* what the 100 ms loop may add to a cycle: one tick per dwell and per animation, and
\* the sleep after the last tick
Slack == (2 * Len(workspaces) + 1) * LOOP_SLEEP_MS

\* the manager holds the two workspaces of the scenario: A and B, one second each
ScenarioAB ==
    /\ phase = "run"
    /\ Len(workspaces) = 2
    /\ workspaces[1].name = "A" /\ workspaces[1].display_time = 1
    /\ workspaces[2].name = "B" /\ workspaces[2].display_time = 1

\* C1: the update() tick that finds the animation window elapsed leaves Sliding with
\* current_index committed to next_index, the episode's target (stated for a current
\* workspace of positive dwell, where the tick does not start the next episode at once).
C1_CompletionCommitsNext ==
    [][(/\ event' = "update"
        /\ workspaces # << >>
        /\ is_transitioning
        /\ now - transition_start >= 500
        /\ Current.display_time > 0)
       => (/\ ~is_transitioning'
           /\ current_index' = next_index)]_vars

\* C2: with positive dwells and no manual event, once the sum of the dwells plus one
\* animation window per workspace has passed, current_index has gone through
\* 1, 2, .., N-1 and back to 0, one index per finished Sliding episode.
C2_FullCycleVisitsAll ==
    (/\ phase = "run"
     /\ presses = 0
     /\ workspaces # << >>
     /\ AllPositive
     /\ now >= CycleMs + Slack)
    => (/\ Len(episodes) >= Len(workspaces)
        /\ \A k \in 1..Len(workspaces) : episodes[k] = k % Len(workspaces))

\* C3: loaded with A (1 s) and B (1 s) the manager holds 2 workspaces, shows index 0
\* from t = 0, slides towards index 1 once the 1000 ms dwell has expired, and is Idle
\* at index 1 from t = 1501 ms until B's dwell expires.
C3_ScenarioTimeline ==
    /\ (event = "load" /\ phase = "run" /\ workspaces[1].name = "A") => ScenarioAB
    /\ (ScenarioAB /\ presses = 0) =>
          /\ (now <= 1000 => (current_index = 0 /\ ~is_transitioning))
          /\ (now \in 1100..1500 => (is_transitioning /\ next_index = 1))
          /\ (now \in 1600..2500 => (~is_transitioning /\ current_index = 1))

\* C4: an update() tick that is not in the middle of an animation starts a transition
\* exactly when the time since last_change_time has reached the current workspace's
\* dwell (the tick that ends an animation has just reset last_change_time to now).
C4_AutoStartIffDwellExpired ==
    [][(event' = "update" /\ workspaces # << >>)
       => (/\ ~is_transitioning =>
                (is_transitioning' <=> now - last_change_time >= Current.display_time * 1000)
           /\ (is_transitioning /\ now - transition_start >= 500) =>
                (is_transitioning' <=> 0 >= Current.display_time * 1000)
           /\ (is_transitioning /\ now - transition_start < 500) =>
                (is_transitioning' /\ transition_start' = transition_start))]_vars

\* C4 witness: an automatic transition has just started, strictly after the dwell
\* expired (a button press held the loop while it did)
C4_Witness ==
    /\ event = "update"
    /\ is_transitioning /\ transition_progress = 0
    /\ transition_start = now - LOOP_SLEEP_MS
    /\ Current.display_time > 0
    /\ transition_start - last_change_time > Current.display_time * 1000

\* a button handler ran in this step
Manual == {"A", "B", "X", "Y"}

\* C5 (as claimed): Button A pressed in Idle before the dwell has expired commits
\* current_index to (current_index + 1) mod N at once and never enters Sliding.
C5_ManualAdvanceCommitsAtOnce ==
    [][(/\ event' = "A"
        /\ workspaces # << >>
        /\ ~is_transitioning
        /\ now - last_change_time < Current.display_time * 1000)
       => (/\ current_index' = (current_index + 1) % Len(workspaces)
           /\ ~is_transitioning')]_vars

\* C5 (amended): Button A pressed in Idle before the dwell has expired starts a Sliding
\* episode towards (current_index + 1) mod N at the time of the press and leaves
\* current_index and last_change_time as they were.
C5_ManualAdvanceStartsSlide ==
    [][(/\ event' = "A"
        /\ workspaces # << >>
        /\ ~is_transitioning
        /\ now - last_change_time < Current.display_time * 1000)
       => (/\ is_transitioning'
           /\ transition_start' = now
           /\ transition_progress' = 0
           /\ next_index' = (current_index + 1) % Len(workspaces)
           /\ current_index' = current_index
           /\ last_change_time' = last_change_time)]_vars

\* C5 witness: Button A has just started a slide before the dwell had expired
C5_Witness ==
    /\ event = "A"
    /\ is_transitioning
    /\ transition_start = now - DEBOUNCE_MS
    /\ next_index = 1
    /\ transition_start - last_change_time < Current.display_time * 1000

\* C6 (as claimed): Button A and Button Y set current_index to the workspace they
\* select and reset last_change_time to the time of the press.
C6_ManualEventResetsDwellTimer ==
    [][(event' \in {"A", "Y"} /\ workspaces # << >>)
       => (/\ last_change_time' = now
           /\ event' = "Y" => current_index' = 0
           /\ (event' = "A" /\ ~is_transitioning)
                 => current_index' = (current_index + 1) % Len(workspaces))]_vars

\* C6 (amended): no button handler writes last_change_time; Button Y sets current_index
\* to 0 and every other button leaves current_index unchanged, so the dwell timer is
\* reset only by the update() tick that ends a Sliding episode.
C6_ManualEventKeepsDwellTimer ==
    [][(event' \in Manual)
       => (/\ last_change_time' = last_change_time
           /\ (event' = "Y" /\ workspaces # << >>) => current_index' = 0
           /\ event' # "Y" => current_index' = current_index)]_vars

\* C6 witness: Button Y was pressed some time after a dwell timer reset, and the timer
\* still shows that reset
C6_Witness ==
    /\ event = "Y"
    /\ workspaces # << >>
    /\ current_index = 0
    /\ last_change_time > 0
    /\ last_change_time < now - DEBOUNCE_MS

\* C7 (as claimed): Button A or Button Y pressed during a Sliding episode ends the
\* episode: is_transitioning is false right after the handler.
C7_ManualEventCancelsSlide ==
    [][(event' \in {"A", "Y"} /\ is_transitioning) => ~is_transitioning']_vars

\* C7 (amended): a button pressed during a Sliding episode neither ends nor restarts
\* it: is_transitioning stays true, transition_start, transition_progress and
\* next_index are unchanged, nothing is painted by the handler, Button A changes
\* nothing at all and Button Y only sets current_index to 0.
C7_ManualEventKeepsSlide ==
    [][(event' \in Manual /\ is_transitioning)
       => (/\ is_transitioning'
           /\ transition_start' = transition_start
           /\ transition_progress' = transition_progress
           /\ next_index' = next_index
           /\ ops' = << >>
           /\ event' = "A" => UNCHANGED mgr
           /\ event' = "Y" => current_index' = 0)]_vars

\* C7 witness: Button A was pressed in the middle of an episode that is still running
C7_Witness ==
    /\ event = "A"
    /\ is_transitioning
    /\ transition_start < now - DEBOUNCE_MS
    /\ now - DEBOUNCE_MS - transition_start < SCROLL_ANIMATION_MS

C9_PositiveDwell ==
    \A i \in 1..Len(workspaces) : workspaces[i].display_time * 1000 > 0

\* the configuration files that are missing, empty, unparsable or workspace-less
NoWorkspaces ==
    {File(FALSE, << >>), File(TRUE, << >>), FileWorkspaces, FilePlaceholder, FileNoKey}

\* main() set up the manager from a configuration without workspaces
DefaultedSetup == \E f \in NoWorkspaces, extra \in BootExtra : MainSetup(f, extra)

----------------------------------------------------------------------------
(* Error handling *)

KnownRenderers == {"TimeRenderer", "DateRenderer", "TextRenderer"}

\* a list of mappings, the form load_from_config is written for
ListOfMappings(w) == w.t = "list" /\ \A i \in 1..Len(w.v) : w.v[i].t = "map"

\* the workspace that stands in for an entry naming an unknown renderer
IsErrorWorkspace(ws) == ws.text # << >> /\ ws.text[1] = "Error: Unknown renderer "

\* C11: load_from_config on a list of entries builds one workspace per entry, in order,
\* with the entry's name and dwell; an entry naming an unknown renderer gets a text
\* renderer showing "Error: Unknown renderer <name>", every other entry the renderer it
\* names; and while such an error workspace is current and no slide runs, a tick starts
\* the transition exactly when its dwell has elapsed, as for any workspace.
C11_UnknownRendererShown ==
    [][/\ (event' = "load" /\ "workspaces" \in DOMAIN last_config'
            /\ ListOfMappings(last_config'["workspaces"]))
          => LET entries == last_config'["workspaces"].v
             IN  /\ Len(workspaces') = Len(entries)
                 /\ \A i \in 1..Len(entries) :
                       LET e == entries[i].v
                           r == IF "renderer" \in DOMAIN e THEN e["renderer"] ELSE "TextRenderer"
                           ws == workspaces'[i]
                       IN  /\ ws.name = (IF "name" \in DOMAIN e THEN e["name"] ELSE "Unnamed")
                           /\ ws.display_time =
                                 (IF "display_time" \in DOMAIN e THEN e["display_time"] ELSE 10)
                           /\ IF r \in KnownRenderers
                              THEN ws.renderer = r /\ ~IsErrorWorkspace(ws)
                              ELSE /\ ws.renderer = "TextRenderer"
                                   /\ ws.text = << "Error: Unknown renderer ", r >>
       /\ (event' = "update" /\ workspaces # << >> /\ ~is_transitioning
            /\ IsErrorWorkspace(Current))
          => (is_transitioning' <=> now - last_change_time >= Current.display_time * 1000)
      ]_vars

\* C11 witness: loaded from an unknown-renderer entry followed by a text entry, the
\* manager dwelt 1 s on the error workspace and has just started the slide away from it
C11_Witness ==
    /\ last_config = CfgUnknown
    /\ event = "update"
    /\ Len(workspaces) = 2
    /\ workspaces[1].text = << "Error: Unknown renderer ", "Nonexistent" >>
    /\ workspaces[2].text = << "hi" >>
    /\ current_index = 0
    /\ is_transitioning /\ transition_progress = 0
    /\ transition_start - last_change_time = 1000

\* C12: whatever the configuration file holds, main() finishes its set-up with a
\* non-empty workspace list and enters the loop.
C12_StartupAlwaysRecovers ==
    event = "main" => (phase = "run" /\ workspaces # << >>)

\* C13: no step of the running loop ends it: after every tick and every handled button
\* press, whatever raised during it, the loop is still running.
C13_LoopNeverEnds ==
    [][(phase = "run" /\ event' \in {"update", "A", "B", "X", "Y"}) => phase' = "run"]_vars

\* the failures of a tick's paint: a renderer's update() or a display call of its
\* render(), the clear of a transition frame, a display call of a render_with_offset
PaintFailures == {"update", "render", "clear", "out"}

\* a tick in whose paint a call failed
FailedPaint == event' = "update" /\ failed' \in PaintFailures

\* What a failed paint leaves of the tick: update() returned (the loop slept its 100 ms
\* and nothing else), and the scheduling state is what the same tick without the failure
\* leaves
FailedPaintContained ==
    /\ phase' = "run"
    /\ now' = now + 100
    /\ error_led' = error_led
    /\ current_index' = current_index
    /\ transition_start' = transition_start
    /\ is_transitioning' = (is_transitioning /\ now - transition_start < 500)
    /\ last_change_time' = (IF is_transitioning /\ now - transition_start >= 500
                            THEN now ELSE last_change_time)

\* the tick after a failed paint paints again, unless the dwell is due and it starts the
\* slide
PaintRetried ==
    (event = "update" /\ failed \in PaintFailures /\ event' = "update")
       => \/ is_transitioning' /\ transition_start' = now
          \/ failed' \in {"update", "clear"}
          \/ \E i \in 1..Len(ops') : ops'[i].op \in {"render", "render_with_offset"}

\* C14 (as claimed): a call failing during a tick's paint ends that paint (no workspace
\* call follows the one that failed), update() does not raise, the scheduling state ends
\* the tick as without the failure, and the next tick paints again.
C14_FailedPaintSkipsRest ==
    [][/\ FailedPaint
          => /\ FailedPaintContained
             /\ Len(ops') = (CASE failed' = "update" -> 1
                               [] failed' = "render" -> 2
                               [] failed' = "clear"  -> 0
                               [] failed' = "out"    -> 1)
       /\ PaintRetried]_vars

\* C14 (amended): a call failing during a tick's paint never leaves update(), the
\* scheduling state ends the tick as without the failure, and the next tick paints
\* again.  The rest of the paint is skipped when the renderer's update() fails (no
\* render() follows) and when the clear of a transition frame fails (no workspace is
\* rendered); a failure inside the outgoing workspace's render_with_offset is caught
\* there, and the incoming workspace is still rendered in the same frame.
C14_FailedPaintContained ==
    [][/\ FailedPaint
          => /\ FailedPaintContained
             /\ failed' = "update" => (Len(ops') = 1 /\ ops'[1].op = "update")
             /\ failed' = "render" => (Len(ops') = 2 /\ ops'[2].op = "render")
             /\ failed' = "clear" => ops' = << >>
             /\ failed' = "out"
                  => /\ Len(ops') = 2
                     /\ ops'[1] = [op |-> "render_with_offset", ws |-> current_index,
                                   dx |-> 0 - ((now - transition_start) * 240) \div 500]
                     /\ ops'[2] = [op |-> "render_with_offset", ws |-> next_index,
                                   dx |-> 240 - ((now - transition_start) * 240) \div 500]
       /\ PaintRetried]_vars

\* C14 witness: in a transition frame the outgoing workspace's render_with_offset
\* failed and both workspaces were rendered; the slide goes on
C14_Witness ==
    /\ event = "update"
    /\ failed = "out"
    /\ is_transitioning
    /\ transition_progress > 0
    /\ Len(ops) = 2
    /\ ops[2].op = "render_with_offset" /\ ops[2].ws = next_index

\* C15: a failed paint turns the visible error indication on exactly when it is the
\* third or later in a row within the dwell; a first or second one leaves it as it was.
C15_ThirdFailureDegrades ==
    [][FailedPaint => (error_led' <=> (error_led \/ streak' >= 3))]_vars

\* C16: a call of load_from_config leaves either the list it found or the complete
\* list of its configuration, one workspace per entry.
C16_ReplacesAtomically ==
    [][event' = "load"
       => \/ workspaces' = workspaces
          \/ /\ "workspaces" \in DOMAIN last_config'
             /\ ListOfMappings(last_config'["workspaces"])
             /\ Len(workspaces') = Len(last_config'["workspaces"].v)]_vars

----------------------------------------------------------------------------
(* Configuration parser *)

\* the forms of a line
IsItem(line) == Kept(line) /\ Head(Strip(line)) = "-"

ItemContent(line) == Strip(Tail(Strip(line)))

IsScalarItem(line) == IsItem(line) /\ ~Contains(ItemContent(line), ":")

IsPairItem(line) == IsItem(line) /\ Contains(ItemContent(line), ":")

IsPair(line) == Kept(line) /\ ~IsItem(line) /\ Contains(line, ":")

\* the key and the value text of a pair, on a line of its own or after the "-"
PairKey(line) ==
    KeyOf(Strip(Split(IF IsItem(line) THEN ItemContent(line) ELSE Strip(line), ":")[1]))

PairValue(line) ==
    Strip(Split(IF IsItem(line) THEN ItemContent(line) ELSE Strip(line), ":")[2])

\* 'key:' with nothing after the colon
IsBareKey(line) == IsPair(line) /\ PairValue(line) = << >>

\* C17: parse raises on no text: every call ends by returning its mapping.
C17_ParseNeverRaises ==
    ps.raised = ""

\* C18: load_file returns the empty mapping, and nothing of what parse had built, when
\* the file is missing, when it is empty, and when parse raised.
C18_LoadFileEmptyOnFailure ==
    (pc = "done" /\ (~file.exists \/ ps.raised # ""
                     \/ \A i \in 1..Len(file.lines) : Strip(file.lines[i]) = << >>))
       => ret = EmptyDict

\* C18 witness: parse raised IndexError after it had stored a key, and load_file
\* returned the empty mapping
C18_Witness ==
    /\ pc = "done"
    /\ event = "except"
    /\ ps.raised = "IndexError"
    /\ ps.result # EmptyDict
    /\ ret = EmptyDict

\* the workspace format: 'key:' at the margin, then 'k: v' items at one indent, each
\* followed by any number of deeper 'k: v' lines
WorkspaceFormat(lines) ==
    /\ Len(lines) >= 2
    /\ IsBareKey(lines[1]) /\ Indent(lines[1]) = 0
    /\ IsPairItem(lines[2])
    /\ \A i \in 3..Len(lines) :
          \/ IsPairItem(lines[i]) /\ Indent(lines[i]) = Indent(lines[2])
          \/ IsPair(lines[i]) /\ PairValue(lines[i]) # << >>
                /\ Indent(lines[i]) > Indent(lines[2])

\* the number of items that start at or before line i
ItemsUpTo(lines, i) == Cardinality({j \in 2..i : IsPairItem(lines[j])})

\* C19: a text in the workspace format parses to its key bound to a list with one
\* mapping per item, in order, and each mapping holds the pair of its item line and the
\* pairs of the lines that follow it.
C19_WorkspaceFormatParsed ==
    (pc = "done" /\ file.exists /\ WorkspaceFormat(file.lines))
       => LET lines == file.lines
              key   == PairKey(lines[1])
          IN  /\ key \in DOMAIN ret
              /\ ret[key].t = "list"
              /\ Len(ret[key].v) = ItemsUpTo(lines, Len(lines))
              /\ \A i \in 2..Len(lines) :
                    LET m == ret[key].v[ItemsUpTo(lines, i)]
                    IN  /\ m.t = "map"
                        /\ PairKey(lines[i]) \in DOMAIN m.v
                        /\ m.v[PairKey(lines[i])] =
                              (IF PairValue(lines[i]) # << >>
                               THEN Coerce(PairValue(lines[i])) ELSE None)

\* the scalars of the items from line `from` + 1 on, quotes stripped
Scalars(lines, from) ==
    List([i \in 1..(Len(lines) - from) |-> Str(StripQuotes(ItemContent(lines[from + i])))])

\* 'key:' at the margin followed by scalar items only
ScalarListAtTop(lines) ==
    /\ Len(lines) >= 2
    /\ IsBareKey(lines[1]) /\ Indent(lines[1]) = 0
    /\ \A i \in 2..Len(lines) : IsScalarItem(lines[i])

\* the same one level down: 'parent:', an indented 'key:', then scalar items only
ScalarListNested(lines) ==
    /\ Len(lines) >= 3
    /\ IsBareKey(lines[1]) /\ Indent(lines[1]) = 0
    /\ IsBareKey(lines[2]) /\ Indent(lines[2]) > 0
    /\ \A i \in 3..Len(lines) : IsScalarItem(lines[i])

\* C20: 'key:' followed by scalar items parses to that key bound to the list of the
\* scalars, in order and without their quotes, at the top level and under a parent key.
C20_ScalarListParsed ==
    (pc = "done" /\ file.exists)
       => LET lines == file.lines
          IN  /\ ScalarListAtTop(lines)
                 => /\ PairKey(lines[1]) \in DOMAIN ret
                    /\ ret[PairKey(lines[1])] = Scalars(lines, 1)
              /\ ScalarListNested(lines)
                 => /\ PairKey(lines[1]) \in DOMAIN ret
                    /\ ret[PairKey(lines[1])].t = "map"
                    /\ PairKey(lines[2]) \in DOMAIN ret[PairKey(lines[1])].v
                    /\ ret[PairKey(lines[1])].v[PairKey(lines[2])] = Scalars(lines, 2)

\* 'parent:' at the margin followed by two or more 'k: v' lines at one greater indent
NestedMapping(lines) ==
    /\ Len(lines) >= 3
    /\ IsBareKey(lines[1]) /\ Indent(lines[1]) = 0
    /\ Indent(lines[2]) > 0
    /\ \A i \in 2..Len(lines) :
          /\ IsPair(lines[i]) /\ PairValue(lines[i]) # << >>
          /\ Indent(lines[i]) = Indent(lines[2])

\* C21: a one-level-nested mapping parses to the parent bound to a mapping that holds
\* every nested key, and the nested keys are nowhere else: the result has no key but the
\* parent, and the stack ends one level deep, at the parent.
C21_NestedKeysUnderParent ==
    (pc = "done" /\ file.exists /\ NestedMapping(file.lines))
       => LET lines  == file.lines
              parent == PairKey(lines[1])
          IN  /\ DOMAIN ret = {parent}
              /\ ret[parent].t = "map"
              /\ DOMAIN ret[parent].v = {PairKey(lines[i]) : i \in 2..Len(lines)}
              /\ ps.key_stack = << parent >>
              /\ ps.indent_stack = << 0, Indent(lines[2]) >>

\* a value enclosed in double quotes
Quoted(value) == Head(value) = Quote /\ value[Len(value)] = Quote

\* the spellings of the booleans
TrueWords == {<< "true" >>, << "True" >>, << "TRUE" >>}

FalseWords == {<< "false" >>, << "False" >>, << "FALSE" >>}

\* a value in decimal notation that float() accepts
IsDecimalFloat(value) == Contains(value, ".") /\ IsFloat(value)

\* a value in exponent notation, which float() accepts although it holds no "."
IsExponentFloat(value) ==
    /\ ~Contains(value, ".")
    /\ Contains(value, "e")
    /\ IsInt(Split(value, "e")[1])
    /\ IsInt(Split(value, "e")[2])

RECURSIVE Pow10(_)
Pow10(n) == IF n = 0 THEN 1 ELSE 10 * Pow10(n - 1)

\* float(value) of a value in exponent notation
ExponentFloatOf(value) ==
    LET m == IntOf(Split(value, "e")[1])
        e == IntOf(Split(value, "e")[2])
    IN  IF e >= 0 THEN Float(m * Pow10(e), 0) ELSE Normal(m, 0 - e)

\* the fixed order of the claim: quoted, boolean, integer, float, text
InFixedOrder(value) ==
    IF Quoted(value) THEN Str(SubSeq(value, 2, Len(value) - 1))
    ELSE IF value \in TrueWords THEN Bool(TRUE)
    ELSE IF value \in FalseWords THEN Bool(FALSE)
    ELSE IF IsInt(value) THEN Num(IntOf(value))
    ELSE IF IsDecimalFloat(value) THEN FloatOf(value)
    ELSE IF IsExponentFloat(value) THEN ExponentFloatOf(value)
    ELSE Str(value)

\* the same order with the float read only off a value that holds a "."
InFixedOrderByPoint(value) ==
    IF Quoted(value) THEN Str(SubSeq(value, 2, Len(value) - 1))
    ELSE IF value \in TrueWords THEN Bool(TRUE)
    ELSE IF value \in FalseWords THEN Bool(FALSE)
    ELSE IF IsInt(value) THEN Num(IntOf(value))
    ELSE IF IsDecimalFloat(value) THEN FloatOf(value)
    ELSE Str(value)

\* a text of one 'key: value' line, its value non-empty and without a comment
OnePair(lines) ==
    /\ Len(lines) = 1
    /\ IsPair(lines[1])
    /\ PairValue(lines[1]) # << >>
    /\ ~Contains(PairValue(lines[1]), "#")

\* a text of one '- key: value' item, after the first line that gives it a list
OneItem(lines) ==
    /\ Len(lines) = 2
    /\ lines[1] = Opener
    /\ IsPairItem(lines[2])
    /\ PairValue(lines[2]) # << >>
    /\ ~Contains(PairValue(lines[2]), "#")

\* C22 (as claimed): the value of a 'key: value' line and of the first pair of a list
\* item is stored converted in the fixed order quoted, boolean, integer, float, text,
\* a float being whatever float() accepts, and the conversion never raises.
C22_FixedOrderAnyFloat ==
    (pc = "done" /\ file.exists)
       => LET lines == file.lines
          IN  /\ OnePair(lines)
                 => /\ ps.raised = ""
                    /\ PairKey(lines[1]) \in DOMAIN ret
                    /\ ret[PairKey(lines[1])] = InFixedOrder(PairValue(lines[1]))
              /\ OneItem(lines)
                 => /\ ps.raised = ""
                    /\ NoneKey \in DOMAIN ret
                    /\ ret[NoneKey] =
                          List(<< Map(Put(EmptyDict, PairKey(lines[2]),
                                          InFixedOrder(PairValue(lines[2])))) >>)

\* C22 (amended): the same, a float being a value that holds a "." and that float()
\* accepts; a value without "." that is no integer is kept as text.
C22_FixedOrderFloatByPoint ==
    (pc = "done" /\ file.exists)
       => LET lines == file.lines
          IN  /\ OnePair(lines)
                 => /\ ps.raised = ""
                    /\ PairKey(lines[1]) \in DOMAIN ret
                    /\ ret[PairKey(lines[1])] = InFixedOrderByPoint(PairValue(lines[1]))
              /\ OneItem(lines)
                 => /\ ps.raised = ""
                    /\ NoneKey \in DOMAIN ret
                    /\ ret[NoneKey] =
                          List(<< Map(Put(EmptyDict, PairKey(lines[2]),
                                          InFixedOrderByPoint(PairValue(lines[2])))) >>)

\* C22 witness: a list item whose value is a boolean in capitals has been parsed and
\* stored as a boolean
C22_Witness ==
    /\ pc = "done"
    /\ event = "return"
    /\ file.lines = << Opener, ItemOf(<< "TRUE" >>) >>
    /\ ret[NoneKey] = List(<< Map(Put(EmptyDict, ValueKey, Bool(TRUE))) >>)

\* a text of one 'key: value # comment' line with an unquoted value
OneCommentedPair(lines) ==
    /\ Len(lines) = 1
    /\ IsPair(lines[1])
    /\ Contains(PairValue(lines[1]), "#")
    /\ ~Quoted(PairValue(lines[1]))
    /\ Strip(Split(PairValue(lines[1]), "#")[1]) # << >>

\* the line without its comment
Uncommented(line) == RStrip(Split(line, "#")[1])

\* C23: a line with an inline comment stores what the line without the comment
\* stores: 'display_time: 5 # seconds' yields the integer 5, as 'display_time: 5' does.
C23_InlineCommentStripped ==
    (pc = "done" /\ file.exists /\ OneCommentedPair(file.lines))
       => LET line == file.lines[1]
              key  == PairKey(line)
          IN  /\ key \in DOMAIN ret
              /\ ret[key] = LoadFile(File(TRUE, << Uncommented(line) >>))[key]
              /\ line = PairOf(0, << "5", " ", "#", " ", "seconds" >>) => ret[key] = Num(5)

\* two lines at the margin that name the same key
SameKeyTwice(lines) ==
    /\ Len(lines) = 2
    /\ IsPair(lines[1]) /\ IsPair(lines[2])
    /\ Indent(lines[1]) = 0 /\ Indent(lines[2]) = 0
    /\ PairKey(lines[1]) = PairKey(lines[2])

\* C24: of two lines that name the same key at the same level the later one wins: the
\* key holds what the later line alone stores, a scalar or the empty placeholder.
C24_LastWriteWins ==
    (pc = "done" /\ file.exists /\ SameKeyTwice(file.lines))
       => LET key == PairKey(file.lines[2])
          IN  /\ key \in DOMAIN ret
              /\ ret[key] = LoadFile(File(TRUE, << file.lines[2] >>))[key]

----------------------------------------------------------------------------
(* Sliding and Idle ticks *)

\* a step in which _start_transition runs: from Idle (a tick whose dwell is due, or
\* Button A), or in the tick that finds the previous episode over and the dwell due again
EntersSliding ==
    /\ is_transitioning'
    /\ \/ ~is_transitioning
       \/ event' = "update" /\ now - transition_start >= 500

\* a step inside one Sliding episode
SameEpisode == is_transitioning /\ is_transitioning' /\ ~EntersSliding

\* C26: within one Sliding episode transition_progress never decreases from one step
\* to the next, and every episode starts with it at 0.
C26_ProgressNeverDecreases ==
    [][/\ EntersSliding => transition_progress' = 0
       /\ SameEpisode => transition_progress' >= transition_progress]_vars

\* C26 witness: an episode that has painted its frame at 400 of the 500 ms
C26_Witness ==
    /\ event = "update"
    /\ is_transitioning
    /\ transition_progress = 400
    /\ now = transition_start + 500

\* C27: the tick that ends a Sliding episode finds transition_progress at 1.0 (500 of
\* 500 ms), or paints the full frame itself: the incoming workspace at offset 0
\* (stated for the episodes whose entry raised nothing).
C27_ProgressReachesOne ==
    [][(/\ event' = "update" /\ is_transitioning /\ now - transition_start >= 500
        /\ failed # "prepare" /\ ~error_led)
         => \/ transition_progress = 500
            \/ \E i \in 1..Len(ops') :
                  ops'[i] = [op |-> "render_with_offset", ws |-> next_index, dx |-> 0]]_vars

\* C28: the step that enters Sliding sets next_index to the successor of current_index,
\* transition_progress to 0 and transition_start to the time of the step, and calls
\* update() on the current and on the next workspace, in that order, if none of the
\* calls raises; it paints nothing, so both calls precede every frame of the episode.
C28_EntryPreparesBoth ==
    [][EntersSliding
         => /\ next_index' = (current_index + 1) % Len(workspaces)
            /\ transition_progress' = 0
            /\ transition_start' = now
            /\ \A i \in 1..Len(ops') : ops'[i].op = "update"
            /\ failed' # "prepare"
                  => ops' = << [op |-> "update", ws |-> current_index, dx |-> 0],
                               [op |-> "update", ws |-> next_index', dx |-> 0] >>]_vars

\* C28 witness: a tick has entered Sliding towards the second workspace and prepared
\* both
C28_Witness ==
    /\ event = "update"
    /\ is_transitioning
    /\ now = transition_start + 100
    /\ transition_progress = 0
    /\ next_index = 1
    /\ ops = << [op |-> "update", ws |-> 0, dx |-> 0], [op |-> "update", ws |-> 1, dx |-> 0] >>

\* C29: a tick in Idle whose dwell is not due calls update() and then render() on the
\* current workspace, once each (the renderer's update() not raising), and leaves
\* current_index, last_change_time and is_transitioning as they were.
C29_IdleTickPreparesThenPaints ==
    [][(/\ event' = "update"
        /\ workspaces # << >>
        /\ ~is_transitioning
        /\ now - last_change_time < workspaces[current_index + 1].display_time * 1000
        /\ failed' # "update")
         => /\ ops' = << [op |-> "update", ws |-> current_index, dx |-> 0],
                         [op |-> "render", ws |-> current_index, dx |-> 0] >>
            /\ UNCHANGED << current_index, last_change_time, is_transitioning >>]_vars

\* C29 witness: an Idle tick within the dwell has prepared and painted the first
\* workspace
C29_Witness ==
    /\ event = "update"
    /\ ~is_transitioning
    /\ failed = ""
    /\ now - last_change_time < workspaces[current_index + 1].display_time * 1000
    /\ ops = << [op |-> "update", ws |-> 0, dx |-> 0], [op |-> "render", ws |-> 0, dx |-> 0] >>

\* C30: a Sliding tick inside the animation window (its display.clear() not failing)
\* sets progress to elapsed / 500, within [0, 1], and paints the outgoing workspace at
\* -offset and the incoming one at 240 - offset, offset being floor(progress * 240):
\* within 0..240, and the two offsets 240 apart.
C30_LinearSlide ==
    [][(/\ event' = "update"
        /\ is_transitioning
        /\ now - transition_start < 500
        /\ failed' # "clear")
         => LET elapsed == now - transition_start
                offset  == (elapsed * 240) \div 500
            IN  /\ transition_progress' = elapsed
                /\ 0 <= transition_progress' /\ transition_progress' <= 500
                /\ 0 <= offset /\ offset <= 240
                /\ ops' = << [op |-> "render_with_offset", ws |-> current_index,
                              dx |-> 0 - offset],
                             [op |-> "render_with_offset", ws |-> next_index,
                              dx |-> 240 - offset] >>
                /\ ops'[2].dx - ops'[1].dx = 240]_vars

\* C30 witness: the frame at 200 of the 500 ms, the outgoing workspace 96 pixels to
\* the left and the incoming one 144 pixels to the right
C30_Witness ==
    /\ event = "update"
    /\ is_transitioning
    /\ transition_progress = 200
    /\ Len(ops) = 2
    /\ ops[1].dx = -96
    /\ ops[2].dx = 144

----------------------------------------------------------------------------
(* Renderers *)

\* str(n) for n >= 0, as characters
RECURSIVE DecimalText(_)
DecimalText(n) ==
    IF n < 10 THEN << Digits[n + 1] >>
    ELSE Append(DecimalText(n \div 10), Digits[(n % 10) + 1])

RECURSIVE ZeroPad(_, _)
ZeroPad(s, width) == IF Len(s) >= width THEN s ELSE ZeroPad(<< "0" >> \o s, width)

\* "{:0<width>d}".format(n)
Format0d(n, width) == ZeroPad(DecimalText(n), width)

\* "{:02d}:{:02d}".format(current[3], current[4])
TimeText(current) == Format0d(current[4], 2) \o << ":" >> \o Format0d(current[5], 2)

\* "{:04d}-{:02d}-{:02d}".format(current[0], current[1], current[2])
DateText(current) ==
    Format0d(current[1], 4) \o << "-" >> \o Format0d(current[2], 2)
        \o << "-" >> \o Format0d(current[3], 2)

Updated_Blinks(kind, content, current) ==
    CASE kind = "TimeRenderer" ->
            IF content = TimeText(current)
            THEN Format0d(current[4], 2) \o << " " >> \o Format0d(current[5], 2)
            ELSE TimeText(current)
      [] kind = "DateRenderer" -> DateText(current)
      [] OTHER -> content

\* The content field of a renderer after its update(): current_time, current_date, or
\* the text of a TextRenderer, whose update() is `pass`
Updated(kind, content, current) ==
    CASE kind = "TimeRenderer" -> TimeText(current)
      [] kind = "DateRenderer" -> DateText(current)
      [] OTHER -> content

Draw(call, arg) == << call, arg >>

\* the display calls of a renderer's render() when none of them fails
Rendered(kind, content) ==
    << Draw("set_pen", "black"), Draw("clear", ""), Draw("set_pen", "white"),
       Draw("line", "top"), Draw("line", "left"), Draw("line", "right"),
       Draw("line", "bottom") >>
    \o (CASE kind = "TimeRenderer" ->
                << Draw("text", "Current Time"), Draw("text", content) >>
           [] kind = "DateRenderer" ->
                << Draw("text", "Current Date"), Draw("text", content) >>
           [] OTHER -> << Draw("text", content) >>)
    \o << Draw("update", "") >>

\* what a call on a renderer leaves alone
OutsideRenderers ==
    UNCHANGED << phase, now, mgr, event, ops, presses, episodes, last_config, health,
                 parser >>

\* renderer.update()
RendererUpdate(kind) ==
    /\ updates[kind] < MaxUpdates
    /\ renderers' = [renderers EXCEPT ![kind] = Updated(kind, @, localtime)]
    /\ updates' = [updates EXCEPT ![kind] = @ + 1]
    /\ rcall' = [op |-> "update", kind |-> kind, display |-> << >>]
    /\ UNCHANGED localtime
    /\ OutsideRenderers

\* renderer.render()
RendererRender(kind) ==
    /\ rcall' = [op |-> "render", kind |-> kind, display |-> Rendered(kind, renderers[kind])]
    /\ UNCHANGED << renderers, localtime, updates >>
    /\ OutsideRenderers

\* the clock moves on to a later reading
ClockAdvance ==
    /\ \E i, j \in 1..Len(LocalTimes) :
          /\ LocalTimes[i] = localtime
          /\ j > i
          /\ localtime' = LocalTimes[j]
    /\ updates' = [k \in RendererKinds |-> 0]
    /\ rcall' = [op |-> "clock", kind |-> "", display |-> << >>]
    /\ UNCHANGED renderers
    /\ OutsideRenderers

InitRenderer ==
    /\ Constructed
    /\ \E text \in {<< "Welcome" >>, << "hi" >>} : RenderersConstructed(text)
    /\ pc = "idle"
    /\ file = File(FALSE, << >>)

NextRenderer ==
    \/ \E kind \in RendererKinds : RendererUpdate(kind)
    \/ \E kind \in RendererKinds : RendererRender(kind)
    \/ ClockAdvance

\* One renderer of each class under update(), render() and an advancing clock
SpecRenderer == InitRenderer /\ [][NextRenderer]_vars

\* the two decimal digits of n < 100
TwoDigits(n) == << Digits[(n \div 10) + 1], Digits[(n % 10) + 1] >>

\* C33: a renderer's update() issues no display call and is idempotent at one clock
\* reading: it leaves HH:MM of the reading in a TimeRenderer, YYYY-MM-DD in a
\* DateRenderer and the text of a TextRenderer as it was, touches no other renderer,
\* and a further update() at the same reading changes nothing.
C33_UpdateIdempotentNoDraw ==
    [][rcall'.op = "update"
         => LET kind == rcall'.kind
            IN  /\ rcall'.display = << >>
                /\ updates[kind] >= 1 => renderers' = renderers
                /\ \A k \in RendererKinds \ {kind} : renderers'[k] = renderers[k]
                /\ kind = "TextRenderer" => renderers' = renderers
                /\ kind = "TimeRenderer"
                      => renderers'[kind] = TwoDigits(localtime[4]) \o << ":" >>
                                               \o TwoDigits(localtime[5])
                /\ kind = "DateRenderer"
                      => /\ Len(renderers'[kind]) = 10
                         /\ SubSeq(renderers'[kind], 5, 10)
                               = << "-" >> \o TwoDigits(localtime[2]) \o << "-" >>
                                    \o TwoDigits(localtime[3])
                         /\ Decimal(SubSeq(renderers'[kind], 1, 4), 0) = localtime[1]]_vars

\* C33 witness: update() of the TimeRenderer has been called a second time at the
\* reading 09:05, and the renderer holds 09:05
C33_Witness ==
    /\ rcall.op = "update"
    /\ rcall.kind = "TimeRenderer"
    /\ updates["TimeRenderer"] = 2
    /\ localtime = LocalTimes[2]
    /\ renderers["TimeRenderer"] = << "0", "9", ":", "0", "5" >>
    /\ renderers["DateRenderer"] = << >>

----------------------------------------------------------------------------
(* Edge cases of the state machine *)

\* C31: with one workspace a tick whose dwell is due starts a Sliding episode towards
\* index 0 itself; the episode paints its frames through the whole animation window,
\* the workspace sliding into itself, and the tick that ends it leaves current_index
\* at 0, Idle again when the dwell is positive.
C31_SingleWorkspaceSlides ==
    [][(event' = "update" /\ Len(workspaces) = 1)
         => /\ (~is_transitioning
                  /\ now - last_change_time >= workspaces[1].display_time * 1000)
               => (is_transitioning' /\ next_index' = 0 /\ current_index' = 0
                   /\ transition_start' = now)
            /\ (is_transitioning /\ now - transition_start < 500)
               => /\ is_transitioning'
                  /\ failed' = ""
                       => (/\ Len(ops') = 2
                           /\ ops'[1].op = "render_with_offset" /\ ops'[1].ws = 0
                           /\ ops'[2].op = "render_with_offset" /\ ops'[2].ws = 0)
            /\ (is_transitioning /\ now - transition_start >= 500)
               => /\ current_index' = 0
                  /\ workspaces[1].display_time > 0 => ~is_transitioning']_vars

\* C31 witness: the only workspace has slid into itself and the manager is Idle at
\* index 0 again
C31_Witness ==
    /\ event = "update"
    /\ Len(workspaces) = 1
    /\ episodes = << 0 >>
    /\ ~is_transitioning
    /\ current_index = 0
    /\ next_index = 0

\* C32: a tick does one thing to the transition state: the tick that finds the
\* animation window over ends the episode and starts no new one, whatever the dwell of
\* the current workspace.
C32_CompletionStartsNothing ==
    [][(event' = "update" /\ workspaces # << >> /\ is_transitioning
        /\ now - transition_start >= 500 /\ ~error_led')
         => (~is_transitioning' /\ transition_start' = transition_start)]_vars

\* C35: a Sliding episode in flight is neither restarted nor retargeted. Until the tick
\* that finds the animation window over, every tick and every button leaves
\* is_transitioning true and transition_start and next_index as _start_transition set
\* them; an episode ends, or gives way to the next, only after at least
\* SCROLL_ANIMATION_MS of clock time.
C35_EpisodeNeverRestarted ==
    [][is_transitioning
         => /\ ~(event' = "update" /\ now - transition_start >= 500)
               => (/\ is_transitioning'
                   /\ transition_start' = transition_start
                   /\ next_index' = next_index)
            /\ (~is_transitioning' \/ transition_start' # transition_start
                  \/ Len(episodes') # Len(episodes))
               => (event' = "update" /\ now - transition_start >= 500)]_vars

\* C35 witness: Button A was pressed while an episode started by a tick was half way,
\* and the episode is as the tick started it
C35_Witness ==
    /\ event = "A"
    /\ is_transitioning
    /\ transition_start = last_change_time + workspaces[1].display_time * 1000
    /\ now - DEBOUNCE_MS - transition_start >= 200
    /\ next_index = 1

\* C36: last_change_time is written by the constructor and by the tick that ends a
\* transition, which sets it to the time of that tick, and by nothing else: not by
\* main's set-up, load_from_config, a button or any other tick. So until the first
\* episode has ended it holds the time of construction, and the first workspace is due
\* once its dwell has passed since construction, splash screen and loading included.
C36_OnlyCompletionWritesTimer ==
    [][/\ last_change_time' # last_change_time
          => (/\ event' = "update"
              /\ is_transitioning
              /\ now - transition_start >= 500
              /\ last_change_time' = now)
       /\ episodes = << >> => last_change_time = 0
       /\ (event' = "update" /\ episodes = << >> /\ ~is_transitioning
           /\ workspaces # << >> /\ failed' = "")
          => (is_transitioning' <=> now >= workspaces[1].display_time * 1000)]_vars

\* C36 witness: the first workspace was left exactly when its dwell had passed since
\* construction, and the timer now holds the time of the tick that ended that slide
C36_Witness ==
    /\ event = "update"
    /\ episodes = << 0 >>
    /\ ~is_transitioning
    /\ transition_start = workspaces[1].display_time * 1000
    /\ transition_start > 0
    /\ last_change_time = transition_start + SCROLL_ANIMATION_MS
    /\ now = last_change_time + LOOP_SLEEP_MS

\* C37: the tick that starts a transition calls the two renderers' update() and paints
\* nothing; the tick that ends a transition of a workspace with a positive dwell goes
\* on, in the same tick, to the regular update() and render() of the workspace at
\* current_index; and no tick paints both a transition frame and a regular frame.
C37_StartPaintsNothingEndPaintsRegular ==
    [][(event' = "update" /\ workspaces # << >>)
         => /\ (is_transitioning'
                  /\ (~is_transitioning \/ now - transition_start >= 500))
               => \A i \in 1..Len(ops') : ops'[i].op = "update"
            /\ (is_transitioning /\ now - transition_start >= 500
                  /\ workspaces[current_index + 1].display_time > 0
                  /\ failed' # "update")
               => ops' = << [op |-> "update", ws |-> current_index', dx |-> 0],
                            [op |-> "render", ws |-> current_index', dx |-> 0] >>
            /\ \A i, j \in 1..Len(ops') :
                  ~(ops'[i].op = "render_with_offset" /\ ops'[j].op = "render")]_vars

\* C37 witness: the tick that ended a slide has painted the regular frame of the
\* workspace at current_index
C37_Witness ==
    /\ event = "update"
    /\ ~is_transitioning
    /\ episodes # << >>
    /\ last_change_time = now - LOOP_SLEEP_MS
    /\ Len(ops) = 2
    /\ ops[2].op = "render"
    /\ ops[2].ws = current_index

----------------------------------------------------------------------------
(* load_from_config *)

\* the workspace load_from_config is to build from one entry mapping
Built(e) ==
    LET has(k) == k \in DOMAIN e
        kind == IF ~has("renderer") THEN "TextRenderer"
                ELSE IF e["renderer"] \in KnownRenderers THEN e["renderer"]
                ELSE "TextRenderer"
        text == IF has("renderer") /\ e["renderer"] \notin KnownRenderers
                THEN << "Error: Unknown renderer ", e["renderer"] >>
                ELSE IF kind # "TextRenderer" THEN << >>
                ELSE IF has("text") THEN e["text"]
                ELSE << "Default Text" >>
    IN  [name |-> IF has("name") THEN e["name"] ELSE "Unnamed",
         display_time |-> IF has("display_time") THEN e["display_time"] ELSE 10,
         renderer |-> kind,
         text |-> text]

\* C39: load_from_config on a list of entry mappings leaves exactly one workspace per
\* entry, in the order of the list, each with its renderer (the named one, a
\* TextRenderer with the entry's text, or the error text for an unknown name) and with
\* 'Unnamed', 10 and TextRenderer for an absent name, display_time and renderer; it
\* does not raise and returns True exactly when the list it leaves is not empty.
C39_OneWorkspacePerEntry ==
    [][(event' = "load" /\ "workspaces" \in DOMAIN last_config'
        /\ ListOfMappings(last_config'["workspaces"]))
         => LET entries == last_config'["workspaces"].v
            IN  /\ workspaces' = [i \in 1..Len(entries) |-> Built(entries[i].v)]
                /\ phase' # "crashed"
                /\ phase' = "run" <=> workspaces' # << >>]_vars

\* C39 witness: a list of three entries, the first two without name, dwell and
\* renderer, has been loaded and the call returned True
C39_Witness ==
    /\ event = "load"
    /\ last_config = CfgMinimal
    /\ phase = "run"
    /\ Len(workspaces) = 3
    /\ workspaces[1] = [name |-> "Unnamed", display_time |-> 10,
                        renderer |-> "TextRenderer", text |-> << "hello" >>]
    /\ workspaces[2].text = << "Default Text" >>
    /\ workspaces[3].renderer = "DateRenderer"

\* the values load_from_config refuses before touching the list
Refused == {CfgList, CfgNone, CfgNoKey}

\* C38: load_from_config given a value that is not a mapping, or a mapping without
\* 'workspaces', returns False and leaves the workspace list as it was; and every call,
\* whatever it is given and whatever it returns, leaves current_index,
\* last_change_time, is_transitioning, transition_start and next_index as they were.
C38_RefusedLoadKeepsList ==
    [][event' = "load"
         => /\ last_config' \in Refused => (workspaces' = workspaces /\ phase' = "boot")
            /\ current_index' = current_index
            /\ last_change_time' = last_change_time
            /\ is_transitioning' = is_transitioning
            /\ transition_start' = transition_start
            /\ next_index' = next_index]_vars

\* C38 witness: a document that is a list was refused in the middle of a slide, the
\* second since construction, and list and transition are as they were
C38_Witness ==
    /\ event = "load"
    /\ last_config = CfgList
    /\ phase = "boot"
    /\ Len(workspaces) = 2
    /\ is_transitioning
    /\ episodes # << >>
    /\ transition_start > last_change_time
    /\ now > transition_start + LOOP_SLEEP_MS

----------------------------------------------------------------------------
(* Termination of a slide *)

\* the clock of the model has room for the ticks up to the one that ends the episode
\* in flight
RoomToEnd ==
    /\ transition_start + SCROLL_ANIMATION_MS + 2 * LOOP_SLEEP_MS <= MaxTime
    /\ now + LOOP_SLEEP_MS <= MaxTime

\* the numbers of episodes that can have ended within the clock of the model
EpisodeCounts == 0..(MaxTime \div SCROLL_ANIMATION_MS)

\* C34: under ticks that keep coming, every Sliding episode ends, whether calls fail
\* during it or not: the count of ended episodes grows past its value at any state in
\* flight, and when the dwell of the current workspace is positive a state with
\* is_transitioning false follows.
C34_EveryEpisodeEnds ==
    /\ \A n \in EpisodeCounts :
          (phase = "run" /\ is_transitioning /\ RoomToEnd /\ Len(episodes) = n)
             ~> (Len(episodes) > n)
    /\ (phase = "run" /\ is_transitioning /\ RoomToEnd
          /\ workspaces[current_index + 1].display_time > 0)
          ~> ~is_transitioning

\* C34 witness: an episode whose start failed in a renderer's update(), followed by
\* the error pause, has ended and the manager is Idle
C34_Witness ==
    /\ event = "update"
    /\ error_led
    /\ episodes # << >>
    /\ ~is_transitioning
    /\ last_change_time - transition_start > SCROLL_ANIMATION_MS

====
